---- MODULE Spec2Model ----
(***************************************************************************)
(* Model of the SSAS account-opening forms: the IndividualForm and         *)
(* CorporateForm components (react-hook-form + zod), their visibility      *)
(* handlers, and the field formatting utilities of utils/form-helpers.ts.  *)
(*                                                                         *)
(* Text that the code inspects character by character (phone numbers,      *)
(* currency strings, the text of number inputs) is a sequence of one-      *)
(* character strings; text of which only emptiness, length or equality     *)
(* matters is a TLA+ string.  A JavaScript number is the record            *)
(* [nan, n]: Num(n) for the integer n, NaN for not-a-number.               *)
(***************************************************************************)
EXTENDS Integers, Sequences, FiniteSets, TLC

(***************************************************************************)
(* Bounds of the explored inputs.                                          *)
(***************************************************************************)
\* the years typed into "Years at Address" range over 0..MaxYears (and "")
MaxYears == 3
\* the months typed into "Months at Address" range over 0..MaxMonths (and "")
MaxMonths == 11

(***************************************************************************)
(* JavaScript values                                                       *)
(***************************************************************************)
Undefined == [kind |-> "undefined"]

NaN == [nan |-> TRUE, n |-> 0]

Num(n) == [nan |-> FALSE, n |-> n]

\* a * b, a + b on JavaScript numbers: NaN is absorbing
JsMul(a, b) == IF a.nan \/ b.nan THEN NaN ELSE Num(a.n * b.n)

JsAdd(a, b) == IF a.nan \/ b.nan THEN NaN ELSE Num(a.n + b.n)

\* a < b, a >= b, a <= b: every comparison with NaN is false
JsLt(a, b) == ~a.nan /\ ~b.nan /\ a.n < b.n

JsGe(a, b) == ~a.nan /\ ~b.nan /\ a.n >= b.n

JsLe(a, b) == ~a.nan /\ ~b.nan /\ a.n <= b.n

DigitChars == <<"0", "1", "2", "3", "4", "5", "6", "7", "8", "9">>

\* the regular-expression class \d
IsDigit(c) == \E i \in 1..10 : DigitChars[i] = c

DigitValue(c) == (CHOOSE i \in 1..10 : DigitChars[i] = c) - 1

RECURSIVE DigitsPrefix(_)
\* the longest prefix of s that consists of digits
DigitsPrefix(s) ==
    IF s = <<>> \/ ~IsDigit(Head(s)) THEN <<>>
    ELSE <<Head(s)>> \o DigitsPrefix(Tail(s))

RECURSIVE DigitsToNat(_)
DigitsToNat(ds) ==
    IF ds = <<>> THEN 0
    ELSE DigitsToNat(SubSeq(ds, 1, Len(ds) - 1)) * 10 + DigitValue(ds[Len(ds)])

RECURSIVE NatToText(_)
\* the decimal text of a natural number, as a number input holds it
NatToText(n) ==
    IF n < 10 THEN <<DigitChars[n + 1]>>
    ELSE NatToText(n \div 10) \o <<DigitChars[(n % 10) + 1]>>

\* parseInt(text): optional sign, then the leading digits; NaN without a digit
parseInt(text) ==
    LET signed == text # <<>> /\ Head(text) \in {"-", "+"}
        body   == IF signed THEN Tail(text) ELSE text
        ds     == DigitsPrefix(body)
    IN  IF ds = <<>> THEN NaN
        ELSE IF signed /\ Head(text) = "-" THEN Num(0 - DigitsToNat(ds))
        ELSE Num(DigitsToNat(ds))

\* what e.target.value of a number input can be: "" (cleared or not a
\* number) or the decimal text of 0..max
NumberInputTexts(max) == {<<>>} \cup {NatToText(n) : n \in 0..max}

(***************************************************************************)
(* IndividualForm: default values and handlers                             *)
(***************************************************************************)
\* the empty entry that handleAddressTimeChange and addPreviousAddress insert
EmptyPreviousAddress ==
    [address1 |-> "", address2 |-> "", address3 |-> "", address4 |-> "",
     postcode |-> "", country |-> "",
     yearsAtAddress |-> Num(0), monthsAtAddress |-> Num(0)]

\* the record handleCommunicationAddressChange allocates on uncheck
EmptyCommunicationAddress ==
    [address1 |-> "", address2 |-> "", address3 |-> "", address4 |-> "",
     postcode |-> "", country |-> ""]

\* useForm({defaultValues}) of IndividualForm; communicationAddress is not
\* among the defaults, so it starts undefined
IndividualDefaultValues ==
    [pstrId |-> "", employeeId |-> Num(0), title |-> "", firstName |-> "",
     middleName |-> "", surname |-> "", isSigner |-> FALSE,
     isTrusteeOfScheme |-> FALSE, dateOfBirth |-> "", gender |-> "",
     primaryNationality |-> "", countryOfBirth |-> "",
     hasDualNationality |-> FALSE, secondNationality |-> "",
     telephone |-> <<>>, mobile |-> <<>>, email |-> <<>>,
     typeOfEmployment |-> "", occupation |-> "",
     marketingPreferences |-> <<>>,
     address1 |-> "", address2 |-> "", address3 |-> "", address4 |-> "",
     postcode |-> "", country |-> "",
     isCurrentAddress |-> TRUE, isPermanentAddress |-> TRUE,
     isCommunicationAddress |-> TRUE,
     yearsAtAddress |-> Num(0), monthsAtAddress |-> Num(0),
     previousAddresses |-> <<>>,
     communicationAddress |-> Undefined,
     taxContributingCountry |-> <<>>, foreignTinId |-> ""]

\* (years * 12) + months of the current address
TotalMonths(vals) ==
    JsAdd(JsMul(vals.yearsAtAddress, Num(12)), vals.monthsAtAddress)

\* the threshold of handleAddressTimeChange, in months
PreviousAddressThreshold == 36

\* the cap of addPreviousAddress and of the Add Previous Address button
MaxPreviousAddresses == 3

\* mutant: re-initialises the list on every change below the threshold
handleAddressTimeChange_EveryChange(vals, show) ==
    IF JsLt(TotalMonths(vals), Num(PreviousAddressThreshold))
    THEN [values |-> [vals EXCEPT !.previousAddresses = <<EmptyPreviousAddress>>],
          show |-> TRUE]
    ELSE IF JsGe(TotalMonths(vals), Num(PreviousAddressThreshold)) /\ show
    THEN [values |-> [vals EXCEPT !.previousAddresses = <<>>], show |-> FALSE]
    ELSE [values |-> vals, show |-> show]

\* mutant: every total that is not below the threshold hides the section
handleAddressTimeChange_NotBelowHides(vals, show) ==
    IF JsLt(TotalMonths(vals), Num(PreviousAddressThreshold)) /\ ~show
    THEN [values |-> [vals EXCEPT !.previousAddresses = <<EmptyPreviousAddress>>],
          show |-> TRUE]
    ELSE IF ~JsLt(TotalMonths(vals), Num(PreviousAddressThreshold)) /\ show
    THEN [values |-> [vals EXCEPT !.previousAddresses = <<>>], show |-> FALSE]
    ELSE [values |-> vals, show |-> show]

\* mutant: shows the section without initialising an entry
handleAddressTimeChange_RevealsEmpty(vals, show) ==
    IF JsLt(TotalMonths(vals), Num(PreviousAddressThreshold)) /\ ~show
    THEN [values |-> vals, show |-> TRUE]
    ELSE IF JsGe(TotalMonths(vals), Num(PreviousAddressThreshold)) /\ show
    THEN [values |-> [vals EXCEPT !.previousAddresses = <<>>], show |-> FALSE]
    ELSE [values |-> vals, show |-> show]

\* mutant: hides the section at the threshold but keeps the entries
handleAddressTimeChange_KeepsEntries(vals, show) ==
    IF JsLt(TotalMonths(vals), Num(PreviousAddressThreshold)) /\ ~show
    THEN [values |-> [vals EXCEPT !.previousAddresses = <<EmptyPreviousAddress>>],
          show |-> TRUE]
    ELSE IF JsGe(TotalMonths(vals), Num(PreviousAddressThreshold)) /\ show
    THEN [values |-> vals, show |-> FALSE]
    ELSE [values |-> vals, show |-> show]

\* handleAddressTimeChange: reads the two durations from the form values and
\* acts only when the total crosses the threshold against the current flag
handleAddressTimeChange(vals, show) ==
    IF JsLt(TotalMonths(vals), Num(PreviousAddressThreshold)) /\ ~show
    THEN [values |-> [vals EXCEPT !.previousAddresses = <<EmptyPreviousAddress>>],
          show |-> TRUE]
    ELSE IF JsGe(TotalMonths(vals), Num(PreviousAddressThreshold)) /\ show
    THEN [values |-> [vals EXCEPT !.previousAddresses = <<>>], show |-> FALSE]
    ELSE [values |-> vals, show |-> show]

\* mutant: the polarity inverted (allocates on check, clears on uncheck)
handleCommunicationAddressChange_Inverted(vals, checked) ==
    [values |-> [vals EXCEPT !.communicationAddress =
                    IF checked THEN EmptyCommunicationAddress ELSE Undefined],
     show |-> ~checked]

\* mutant: a check keeps what was typed and the uncheck brings it back
handleCommunicationAddressChange_RestoresEntered(vals, checked) ==
    [values |-> IF ~checked /\ vals.communicationAddress = Undefined
                THEN [vals EXCEPT !.communicationAddress = EmptyCommunicationAddress]
                ELSE vals,
     show |-> ~checked]

\* handleCommunicationAddressChange(checked)
handleCommunicationAddressChange(vals, checked) ==
    [values |-> [vals EXCEPT !.communicationAddress =
                    IF checked THEN Undefined ELSE EmptyCommunicationAddress],
     show |-> ~checked]

\* mutant: the uncheck also drops the communication address
handleDualNationalityChange_DropsCommunicationAddress(vals, checked) ==
    [values |-> IF ~checked
                THEN [vals EXCEPT !.secondNationality = "",
                                  !.communicationAddress = Undefined]
                ELSE vals,
     show |-> checked]

\* mutant: the second nationality survives the uncheck
handleDualNationalityChange_KeepsValue(vals, checked) ==
    [values |-> vals, show |-> checked]

\* handleDualNationalityChange(checked)
handleDualNationalityChange(vals, checked) ==
    [values |-> IF ~checked THEN [vals EXCEPT !.secondNationality = ""] ELSE vals,
     show |-> checked]

\* mutant: the new entry goes in front
addPreviousAddress_Prepends(vals) ==
    IF Len(vals.previousAddresses) < MaxPreviousAddresses
    THEN [vals EXCEPT !.previousAddresses = <<EmptyPreviousAddress>> \o @]
    ELSE vals

\* mutant: appends without looking at the length
addPreviousAddress_NoCap(vals) ==
    [vals EXCEPT !.previousAddresses = Append(@, EmptyPreviousAddress)]

\* addPreviousAddress: appends one empty entry while fewer than 3 are held
addPreviousAddress(vals) ==
    LET currentAddresses == vals.previousAddresses
    IN  IF Len(currentAddresses) < MaxPreviousAddresses
        THEN [vals EXCEPT !.previousAddresses =
                             Append(currentAddresses, EmptyPreviousAddress)]
        ELSE vals

\* the condition under which the Add Previous Address button is rendered
AddPreviousAddressOffered(vals, show) ==
    show /\ Len(vals.previousAddresses) < MaxPreviousAddresses

(***************************************************************************)
(* utils/form-helpers.ts                                                   *)
(***************************************************************************)
\* a JavaScript Date: Invalid Date, or a calendar day in local time
InvalidDate == [valid |-> FALSE, year |-> 0, month |-> 0, day |-> 0]
Date(y, m, d) == [valid |-> TRUE, year |-> y, month |-> m, day |-> d]

IsLeapYear(y) == (y % 4 = 0 /\ y % 100 # 0) \/ y % 400 = 0

DaysInMonth(y, m) ==
    IF m = 2 THEN (IF IsLeapYear(y) THEN 29 ELSE 28)
    ELSE IF m \in {4, 6, 9, 11} THEN 30
    ELSE 31

\* the day before date
PreviousDay(date) ==
    IF date.day > 1 THEN Date(date.year, date.month, date.day - 1)
    ELSE IF date.month > 1
         THEN Date(date.year, date.month - 1, DaysInMonth(date.year, date.month - 1))
    ELSE Date(date.year - 1, 12, 31)

\* a date-only ISO text is midnight UTC: the same day in local time at or
\* east of Greenwich, the day before west of it
LocalDays(date) == {date, PreviousDay(date)}

AllDigits(text) == \A k \in 1..Len(text) : IsDigit(text[k])

\* YYYY-MM-DD
IsIsoDate(text) ==
    /\ Len(text) = 10
    /\ text[5] = "-" /\ text[8] = "-"
    /\ AllDigits(SubSeq(text, 1, 4) \o SubSeq(text, 6, 7) \o SubSeq(text, 9, 10))

\* +YYYYYY-MM-DD and -YYYYYY-MM-DD, the expanded years of ECMAScript; the
\* year -000000 is not allowed
IsExpandedIsoDate(text) ==
    /\ Len(text) = 13
    /\ text[1] \in {"+", "-"}
    /\ text[8] = "-" /\ text[11] = "-"
    /\ AllDigits(SubSeq(text, 2, 7) \o SubSeq(text, 9, 10) \o SubSeq(text, 12, 13))
    /\ ~(text[1] = "-" /\ DigitsToNat(SubSeq(text, 2, 7)) = 0)

\* two digits, a dash, two digits, a dash, four digits: not a format of
\* the language, engines differ on it
IsDashedNumericDate(text) ==
    /\ Len(text) = 10
    /\ text[3] = "-" /\ text[6] = "-"
    /\ AllDigits(SubSeq(text, 1, 2) \o SubSeq(text, 4, 5) \o SubSeq(text, 7, 10))

\* the date of year y, month m, day d of an ISO text: none when a field is
\* out of range; when the day is past the end of the month engines differ
\* between Invalid Date and rolling over into the next month
IsoDays(y, m, d) ==
    IF m \notin 1..12 \/ d \notin 1..31 THEN {InvalidDate}
    ELSE IF d <= DaysInMonth(y, m) THEN LocalDays(Date(y, m, d))
    ELSE {InvalidDate} \cup LocalDays(Date(y, m + 1, d - DaysInMonth(y, m)))

\* new Date(text): the dates an engine can produce for the text
NewDate(text) ==
    IF IsIsoDate(text)
    THEN IsoDays(DigitsToNat(SubSeq(text, 1, 4)), DigitsToNat(SubSeq(text, 6, 7)),
                 DigitsToNat(SubSeq(text, 9, 10)))
    ELSE IF IsExpandedIsoDate(text)
    THEN IsoDays((IF text[1] = "-" THEN 0 - 1 ELSE 1) * DigitsToNat(SubSeq(text, 2, 7)),
                 DigitsToNat(SubSeq(text, 9, 10)), DigitsToNat(SubSeq(text, 12, 13)))
    ELSE IF IsDashedNumericDate(text)
    THEN LET a == DigitsToNat(SubSeq(text, 1, 2))
             b == DigitsToNat(SubSeq(text, 4, 5))
             y == DigitsToNat(SubSeq(text, 7, 10))
         IN  {InvalidDate}
             \cup (IF a \in 1..12 /\ b \in 1..DaysInMonth(y, a)
                   THEN {Date(y, a, b)} ELSE {})
    ELSE {InvalidDate}

\* addLeadingZeros(n, width) of date-fns
AddLeadingZeros(n, width) ==
    LET text == NatToText(n)
    IN  IF Len(text) >= width THEN text
        ELSE [k \in 1..(width - Len(text)) |-> "0"] \o text

\* the outcome of a call: the value returned, or the error thrown
Returned(value) == [threw |-> FALSE, value |-> value]
Thrown(error) == [threw |-> TRUE, value |-> error]

\* format(date, "dd-MM-yyyy") of date-fns: throws RangeError for Invalid
\* Date; yyyy is the year, or 1 - year for years up to 0, padded to four
\* digits
format(date) ==
    IF ~date.valid THEN Thrown("RangeError: Invalid time value")
    ELSE Returned(
           AddLeadingZeros(date.day, 2) \o <<"-">>
           \o AddLeadingZeros(date.month, 2) \o <<"-">>
           \o AddLeadingZeros(IF date.year > 0 THEN date.year ELSE 1 - date.year, 4))

\* mutant: without the try / catch
formatDate_NoCatch(date, parsed) == format(parsed)

\* formatDate(date), parsed being what new Date(date) produced:
\* try { return format(...) } catch { return date }
formatDate(date, parsed) ==
    LET attempt == format(parsed)
    IN  IF attempt.threw THEN Returned(date) ELSE attempt

\* (0[1-9]|[12][0-9]|3[01]) on the two characters a, b
DayPatternMatches(a, b) ==
    \/ a = "0" /\ IsDigit(b) /\ b # "0"
    \/ a \in {"1", "2"} /\ IsDigit(b)
    \/ a = "3" /\ b \in {"0", "1"}

\* (0[1-9]|1[0-2]) on the two characters a, b
MonthPatternMatches(a, b) ==
    \/ a = "0" /\ IsDigit(b) /\ b # "0"
    \/ a = "1" /\ b \in {"0", "1", "2"}

\* mutant: the pattern without its end anchor
validateDate_Unanchored(date) ==
    /\ Len(date) >= 10
    /\ DayPatternMatches(date[1], date[2])
    /\ date[3] = "-"
    /\ MonthPatternMatches(date[4], date[5])
    /\ date[6] = "-"
    /\ \A k \in 7..10 : IsDigit(date[k])

\* validateDate: /^(0[1-9]|[12][0-9]|3[01])-(0[1-9]|1[0-2])-\d{4}$/.test(date)
validateDate(date) ==
    /\ Len(date) = 10
    /\ DayPatternMatches(date[1], date[2])
    /\ date[3] = "-"
    /\ MonthPatternMatches(date[4], date[5])
    /\ date[6] = "-"
    /\ \A k \in 7..10 : IsDigit(date[k])

\* String.prototype.replace(/\D/g, ""): the digits of the text, in order
StripNonDigits(text) == SelectSeq(text, IsDigit)

\* /(\d{2})(\d{4})(\d{6})/ matches at position i: 12 digits from i on
PhonePatternMatchesAt(text, i) ==
    /\ i + 11 <= Len(text)
    /\ \A k \in i..(i + 11) : IsDigit(text[k])

\* text.replace(/(\d{2})(\d{4})(\d{6})/, "+$1 $2 $3"): the leftmost match is
\* replaced, the text before and after it is kept; no match, no change
ReplacePhonePattern(text) ==
    IF \E i \in 1..Len(text) : PhonePatternMatchesAt(text, i)
    THEN LET i == CHOOSE j \in 1..Len(text) :
                      /\ PhonePatternMatchesAt(text, j)
                      /\ \A k \in 1..(j - 1) : ~PhonePatternMatchesAt(text, k)
         IN  SubSeq(text, 1, i - 1)
             \o <<"+">> \o SubSeq(text, i, i + 1)
             \o <<" ">> \o SubSeq(text, i + 2, i + 5)
             \o <<" ">> \o SubSeq(text, i + 6, i + 11)
             \o SubSeq(text, i + 12, Len(text))
    ELSE text

\* mutant: groups the digits 3 + 3 + 6
formatPhoneNumber_WrongGroups(number) ==
    LET cleaned == StripNonDigits(number)
    IN  IF Len(cleaned) >= 12
        THEN <<"+">> \o SubSeq(cleaned, 1, 3) \o <<" ">> \o SubSeq(cleaned, 4, 6)
             \o <<" ">> \o SubSeq(cleaned, 7, 12) \o SubSeq(cleaned, 13, Len(cleaned))
        ELSE cleaned

\* formatPhoneNumber(number)
formatPhoneNumber(number) ==
    LET cleaned == StripNonDigits(number)
    IN  ReplacePhonePattern(cleaned)

\* A decimal number of the currency helpers: sig * 10^(-exp), or NaN
Dec(sig, exp) == [nan |-> FALSE, sig |-> sig, exp |-> exp]

DecNaN == [nan |-> TRUE, sig |-> 0, exp |-> 0]

RECURSIVE Pow10(_)
Pow10(k) == IF k = 0 THEN 1 ELSE 10 * Pow10(k - 1)

Abs(n) == IF n < 0 THEN 0 - n ELSE n

\* the amount in pence, rounded half away from zero to two decimal places
\* (maximumFractionDigits 2 of the GBP currency format)
RoundToPence(x) ==
    IF x.exp <= 2 THEN x.sig * Pow10(2 - x.exp)
    ELSE LET unit == Pow10(x.exp - 2)
             q    == Abs(x.sig) \div unit
             r    == Abs(x.sig) % unit
             up   == IF 2 * r >= unit THEN q + 1 ELSE q
         IN  IF x.sig < 0 THEN 0 - up ELSE up

RECURSIVE GroupThousands(_)
\* en-GB grouping: a comma before every group of three integer digits
GroupThousands(digits) ==
    IF Len(digits) <= 3 THEN digits
    ELSE GroupThousands(SubSeq(digits, 1, Len(digits) - 3))
         \o <<",">> \o SubSeq(digits, Len(digits) - 2, Len(digits))

PoundSign == "£"

\* formatCurrency(amount) for a number: Intl.NumberFormat("en-GB",
\* {style: "currency", currency: "GBP"}).format(num)
formatCurrency(amount) ==
    IF amount.nan THEN <<PoundSign, "N", "a", "N">>
    ELSE LET pence == RoundToPence(amount)
             units == Abs(pence) \div 100
             frac  == Abs(pence) % 100
         IN  (IF pence < 0 THEN <<"-">> ELSE <<>>)
             \o <<PoundSign>>
             \o GroupThousands(NatToText(units))
             \o <<".", DigitChars[(frac \div 10) + 1], DigitChars[(frac % 10) + 1]>>

\* the characters /[^0-9.-]+/g leaves in place
IsCurrencyChar(c) == IsDigit(c) \/ c = "." \/ c = "-"

\* parseFloat(text) for a text without exponent: optional sign, digits,
\* optional "." and digits; the longest such prefix, NaN without a digit
parseFloat(text) ==
    LET signed   == text # <<>> /\ Head(text) \in {"-", "+"}
        body     == IF signed THEN Tail(text) ELSE text
        intPart  == DigitsPrefix(body)
        rest     == SubSeq(body, Len(intPart) + 1, Len(body))
        fracPart == IF rest # <<>> /\ Head(rest) = "." THEN DigitsPrefix(Tail(rest))
                    ELSE <<>>
        mag      == DigitsToNat(intPart \o fracPart)
    IN  IF intPart = <<>> /\ fracPart = <<>> THEN DecNaN
        ELSE Dec(IF signed /\ Head(text) = "-" THEN 0 - mag ELSE mag, Len(fracPart))

\* mutant: removes the currency symbol only, the grouping commas stay
parseCurrency_KeepsCommas(value) ==
    parseFloat(SelectSeq(value, LAMBDA c : c # PoundSign))

\* parseCurrency(value)
parseCurrency(value) == parseFloat(SelectSeq(value, IsCurrencyChar))

(***************************************************************************)
(* zod schemas.  A schema applied to form values yields the set of issues  *)
(* [path, message] that the resolver reports, the first issue of a path.   *)
(* Messages the source does not give are zod's defaults.                   *)
(***************************************************************************)
Issue(path, message) == [path |-> path, message |-> message]

\* a text input registered without valueAsNumber stores its text: a string
Str(text) == [str |-> text]

IsJsNumber(v) == "nan" \in DOMAIN v

\* the number k + 0.5: a number that is not an integer
NumHalf(k) == [nan |-> FALSE, n |-> k, half |-> TRUE]

IsFractional(v) == "half" \in DOMAIN v

\* v < m and v > m for a number v and an integer m
NumBelow(v, m) == v.n < m
NumAbove(v, m) == IF IsFractional(v) THEN v.n >= m ELSE v.n > m

\* z.string().min(1, {message})
StringMin1(v, path, message) ==
    IF Len(v) < 1 THEN {Issue(path, message)} ELSE {}

\* z.string().min(1, {message}).max(8, {message})
StringMin1Max8(v, path, minMessage, maxMessage) ==
    IF Len(v) < 1 THEN {Issue(path, minMessage)}
    ELSE IF Len(v) > 8 THEN {Issue(path, maxMessage)}
    ELSE {}

\* z.string().max(8, {message})
StringMax8(v, path, message) ==
    IF Len(v) > 8 THEN {Issue(path, message)} ELSE {}

\* mutant: the pattern without its end anchor, /^\d{n}/
MatchesDigits_Unanchored(v, n) ==
    Len(v) >= n /\ \A k \in 1..n : IsDigit(v[k])

\* /^\d{n}$/
MatchesDigits(v, n) == Len(v) = n /\ \A k \in 1..Len(v) : IsDigit(v[k])

\* z.string().regex(/^\d{n}$/, {message})
StringDigits(v, n, path, message) ==
    IF MatchesDigits(v, n) THEN {} ELSE {Issue(path, message)}

\* zod's e-mail pattern, reduced to its structure: one "@" after a non-empty
\* local part, and a domain with a dot followed by two characters or more
IsEmail(v) ==
    \E at \in 2..Len(v) :
        /\ v[at] = "@"
        /\ \A k \in 1..Len(v) : v[k] = "@" => k = at
        /\ \E dot \in (at + 2)..(Len(v) - 2) : v[dot] = "."
        /\ v[Len(v)] # "."

\* z.string().email({message})
StringEmail(v, path, message) ==
    IF IsEmail(v) THEN {} ELSE {Issue(path, message)}

\* z.string().email().max(65, {message})
StringEmailMax65(v, path, message) ==
    IF ~IsEmail(v) THEN {Issue(path, "Invalid email")}
    ELSE IF Len(v) > 65 THEN {Issue(path, message)}
    ELSE {}

\* the issues of z.number() itself: undefined, a string or NaN is not a
\* number
NumberType(v, path) ==
    IF v = Undefined THEN {Issue(path, "Required")}
    ELSE IF ~IsJsNumber(v) THEN {Issue(path, "Expected number, received string")}
    ELSE IF v.nan THEN {Issue(path, "Expected number, received nan")}
    ELSE {}

\* mutant: the bound one too low
NumberMin_OffByOne(v, min, path, message) ==
    IF NumberType(v, path) # {} THEN NumberType(v, path)
    ELSE IF NumBelow(v, min - 1) THEN {Issue(path, message)}
    ELSE {}

\* z.number().min(min, {message})
NumberMin(v, min, path, message) ==
    IF NumberType(v, path) # {} THEN NumberType(v, path)
    ELSE IF NumBelow(v, min) THEN {Issue(path, message)}
    ELSE {}

\* z.number().min(0).max(11)
NumberMin0Max11(v, path) ==
    IF NumberType(v, path) # {} THEN NumberType(v, path)
    ELSE IF NumBelow(v, 0) THEN {Issue(path, "Number must be greater than or equal to 0")}
    ELSE IF NumAbove(v, 11) THEN {Issue(path, "Number must be less than or equal to 11")}
    ELSE {}

\* z.array(z.string()).min(1, {message})
ArrayMin1(v, path, message) ==
    IF Len(v) < 1 THEN {Issue(path, message)} ELSE {}

\* the path of field f of element i (counted from 1) of the array at path
ElementPath(path, i, f) == path \o "." \o ToString(i - 1) \o "." \o f

\* the element schema of individualFormSchema.previousAddresses
PreviousAddressSchema(entry, i) ==
    LET P(f) == ElementPath("previousAddresses", i, f)
    IN  UNION {
          StringMin1(entry.address1, P("address1"), "Address line 1 is required"),
          StringMin1(entry.address2, P("address2"), "Address line 2 is required"),
          StringMin1(entry.postcode, P("postcode"), "Postcode is required"),
          StringMin1(entry.country, P("country"), "Country is required"),
          NumberMin(entry.yearsAtAddress, 0, P("yearsAtAddress"),
                    "Number must be greater than or equal to 0"),
          NumberMin0Max11(entry.monthsAtAddress, P("monthsAtAddress")) }

\* mutant: the list must hold an entry
PreviousAddressesSchema_Min1(list) ==
    ArrayMin1(list, "previousAddresses", "At least one previous address is required")
        \cup UNION {PreviousAddressSchema(list[i], i) : i \in 1..Len(list)}

\* individualFormSchema.previousAddresses: z.array(z.object({...}))
PreviousAddressesSchema(list) ==
    UNION {PreviousAddressSchema(list[i], i) : i \in 1..Len(list)}

\* mutant: the field must be present
StringOptional_Required(vals, f) ==
    IF f \in DOMAIN vals THEN {} ELSE {Issue(f, "Required")}

\* z.string().optional() on field f of vals: absent or any string
StringOptional(vals, f) == {}

\* individualFormSchema.communicationAddress: z.object({...}).optional()
CommunicationAddressSchema(v) ==
    IF v = Undefined THEN {}
    ELSE UNION {
          StringMin1(v.address1, "communicationAddress.address1", "Address line 1 is required"),
          StringMin1(v.address2, "communicationAddress.address2", "Address line 2 is required"),
          StringMin1(v.postcode, "communicationAddress.postcode", "Postcode is required"),
          StringMin1(v.country, "communicationAddress.country", "Country is required") }

\* individualFormSchema; booleans and the unconstrained array add no issue
\* for the values the form can hold
individualFormSchema(vals) ==
    UNION {
      StringMin1(vals.pstrId, "pstrId", "PSTR ID is required"),
      NumberMin(vals.employeeId, 1, "employeeId", "Employee ID is required"),
      StringMin1(vals.title, "title", "Title is required"),
      StringMin1(vals.firstName, "firstName", "First name is required"),
      StringOptional(vals, "middleName"),
      StringMin1(vals.surname, "surname", "Surname is required"),
      StringMin1(vals.dateOfBirth, "dateOfBirth", "Date of birth is required"),
      StringMin1(vals.gender, "gender", "Gender is required"),
      StringMin1(vals.primaryNationality, "primaryNationality",
                 "Primary nationality is required"),
      StringMin1(vals.countryOfBirth, "countryOfBirth", "Country of birth is required"),
      StringOptional(vals, "secondNationality"),
      StringDigits(vals.telephone, 14, "telephone",
                   "Phone number must be 14 digits including country code"),
      StringDigits(vals.mobile, 10, "mobile", "Mobile number must be 10 digits"),
      StringEmail(vals.email, "email", "Please enter a valid email address"),
      StringMin1(vals.typeOfEmployment, "typeOfEmployment", "Type of employment is required"),
      StringMin1(vals.occupation, "occupation", "Occupation is required"),
      StringMin1(vals.address1, "address1", "Address line 1 is required"),
      StringMin1(vals.address2, "address2", "Address line 2 is required"),
      StringOptional(vals, "address3"),
      StringOptional(vals, "address4"),
      StringMin1Max8(vals.postcode, "postcode", "Postcode is required",
                     "Postcode must be 8 characters or less"),
      StringMin1(vals.country, "country", "Country is required"),
      NumberMin(vals.yearsAtAddress, 0, "yearsAtAddress",
                "Number must be greater than or equal to 0"),
      NumberMin0Max11(vals.monthsAtAddress, "monthsAtAddress"),
      PreviousAddressesSchema(vals.previousAddresses),
      CommunicationAddressSchema(vals.communicationAddress),
      ArrayMin1(vals.taxContributingCountry, "taxContributingCountry",
                "At least one tax contributing country is required"),
      StringOptional(vals, "foreignTinId") }

\* mutant: an empty value passes as if the field were unset
Literal_AllowsEmpty(v, expected, path) ==
    IF v = expected \/ v = "" THEN {}
    ELSE {Issue(path, "Invalid literal value, expected \"" \o expected \o "\"")}

\* z.literal(expected)
Literal(v, expected, path) ==
    IF v = expected THEN {}
    ELSE {Issue(path, "Invalid literal value, expected \"" \o expected \o "\"")}

\* the element schema of corporateFormSchema.contributorManagement
ManagementPersonSchema(person, i) ==
    LET P(f) == ElementPath("contributorManagement", i, f)
    IN  UNION {
          StringMin1(person.firstName, P("firstName"), "First name is required"),
          StringMin1(person.surname, P("surname"), "Surname is required"),
          StringMin1(person.position, P("position"), "Position is required") }

\* corporateFormSchema
corporateFormSchema(vals) ==
    UNION {
      StringMin1(vals.pstrId, "pstrId", "PSTR ID is required"),
      StringMin1(vals.pensionSchemeName, "pensionSchemeName", "Pension scheme name is required"),
      StringMin1(vals.contactName, "contactName", "Contact name is required"),
      StringMin1(vals.positionInOrganization, "positionInOrganization", "Position is required"),
      StringMin1(vals.pensionProvider, "pensionProvider", "Pension provider is required"),
      StringDigits(vals.telephone, 14, "telephone",
                   "Phone number must be 14 digits including country code"),
      StringDigits(vals.mobile, 14, "mobile", "Mobile number must be 14 digits"),
      StringEmailMax65(vals.email, "email", "Email must be less than 65 characters"),
      StringMin1(vals.addressType, "addressType", "Address type is required"),
      StringMin1(vals.address1, "address1", "Building number is required"),
      StringMin1(vals.address2, "address2", "Street name is required"),
      StringMin1(vals.postcode, "postcode", "Postcode is required"),
      StringMin1(vals.country, "country", "Country is required"),
      NumberMin(vals.howManyToSign, 1, "howManyToSign", "Number of signatories is required"),
      NumberMin(vals.howManyFromCorporateTrustee, 0, "howManyFromCorporateTrustee",
                "Number must be greater than or equal to 0"),
      NumberMin(vals.howManyMembers, 1, "howManyMembers", "Number of members is required"),
      StringMin1(vals.dateOfRegistration, "dateOfRegistration", "Date of registration is required"),
      NumberMin(vals.depositPerAnnum, 0, "depositPerAnnum", "Deposit per annum is required"),
      NumberMin(vals.annualOutgoings, 0, "annualOutgoings", "Annual outgoings is required"),
      NumberMin(vals.anticipatedActivity, 0, "anticipatedActivity",
                "Anticipated activity is required"),
      NumberMin(vals.anticipatedTransactions, 0, "anticipatedTransactions",
                "Anticipated transactions is required"),
      ArrayMin1(vals.countryOfPayments, "countryOfPayments", "At least one country is required"),
      Literal(vals.schemeRegistrationCountry, "United Kingdom",
              "schemeRegistrationCountry"),
      StringMin1(vals.contributorLegalName, "contributorLegalName", "Legal name is required"),
      StringMin1(vals.contributorAddress1, "contributorAddress1", "Address line 1 is required"),
      StringMax8(vals.contributorPostcode, "contributorPostcode",
                 "Postcode must be 8 characters or less"),
      StringMin1(vals.contributorCountry, "contributorCountry", "Country is required"),
      StringMin1(vals.contributorDateOfIncorporation, "contributorDateOfIncorporation",
                 "Date of incorporation is required"),
      StringMin1(vals.contributorDateOfRegistration, "contributorDateOfRegistration",
                 "Date of registration is required"),
      StringMin1(vals.contributorDateStartedTrading, "contributorDateStartedTrading",
                 "Date started trading is required"),
      StringMin1(vals.contributorNatureOfBusiness, "contributorNatureOfBusiness",
                 "Nature of business is required"),
      ArrayMin1(vals.contributorCountriesOperatesIn, "contributorCountriesOperatesIn",
                "At least one country is required"),
      ArrayMin1(vals.contributorManagement, "contributorManagement",
                "At least one management person is required"),
      UNION {ManagementPersonSchema(vals.contributorManagement[i], i) :
                 i \in 1..Len(vals.contributorManagement)},
      StringMin1(vals.professionalCoSignatory, "professionalCoSignatory",
                 "Professional co-signatory is required"),
      StringMin1(vals.coSignCompanyName, "coSignCompanyName", "Company name is required"),
      StringMin1(vals.coSignAddress, "coSignAddress", "Address is required"),
      StringMin1(vals.coSignTelephone, "coSignTelephone", "Telephone is required"),
      StringEmail(vals.coSignEmail, "coSignEmail", "Valid email is required"),
      StringMin1(vals.regulatorReferenceNumber, "regulatorReferenceNumber",
                 "Regulator reference number is required"),
      IF vals.tcAcknowledgement = TRUE THEN {}
      ELSE {Issue("tcAcknowledgement", "You must acknowledge the terms and conditions")},
      ArrayMin1(vals.accountType, "accountType", "At least one account type is required"),
      StringMin1(vals.openingBalance, "openingBalance", "Opening balance is required"),
      StringMin1(vals.sourceOfInitialFunds, "sourceOfInitialFunds",
                 "Source of initial funds is required"),
      ArrayMin1(vals.sourceOfFunds, "sourceOfFunds", "At least one source of funds is required"),
      StringMin1(vals.valueOfFunds, "valueOfFunds", "Value of funds is required"),
      ArrayMin1(vals.countryOfFunds, "countryOfFunds", "At least one country is required") }

\* useForm({defaultValues}) of CorporateForm
CorporateDefaultValues ==
    [pstrId |-> "", pensionSchemeName |-> "", contactName |-> "",
     positionInOrganization |-> "", pensionProvider |-> "",
     telephone |-> <<>>, mobile |-> <<>>, email |-> <<>>,
     addressType |-> "", address1 |-> "", address2 |-> "", address3 |-> "",
     address4 |-> "", postcode |-> "", country |-> "",
     isCurrentAddress |-> FALSE, isPermanentAddress |-> FALSE,
     isCommunicationAddress |-> FALSE,
     howManyToSign |-> Num(0), howManyFromCorporateTrustee |-> Num(0),
     howManyMembers |-> Num(0),
     isOccupationalScheme |-> FALSE, permitAssignmentOfInterest |-> FALSE,
     hasDeductionFromEmployeeWages |-> FALSE, dateOfRegistration |-> "",
     hasCorporateTrustee |-> FALSE,
     depositPerAnnum |-> Num(0), annualOutgoings |-> Num(0),
     anticipatedActivity |-> Num(0), anticipatedTransactions |-> Num(0),
     countryOfPayments |-> <<>>, schemeRegistrationCountry |-> "United Kingdom",
     contributorLegalName |-> "", contributorTradingName |-> "",
     contributorAddress1 |-> "", contributorAddress2 |-> "",
     contributorAddress3 |-> "", contributorAddress4 |-> "",
     contributorPostcode |-> "", contributorCountry |-> "",
     contributorDateOfIncorporation |-> "", contributorDateOfRegistration |-> "",
     contributorDateStartedTrading |-> "", contributorNatureOfBusiness |-> "",
     contributorCountriesOperatesIn |-> <<>>,
     contributorManagement |->
         <<[firstName |-> "", middleName |-> "", surname |-> "", position |-> ""]>>,
     professionalCoSignatory |-> "", coSignCompanyName |-> "",
     coSignAddress |-> "", coSignTelephone |-> <<>>, coSignEmail |-> <<>>,
     regulatorReferenceNumber |-> "",
     tcAcknowledgement |-> FALSE, accountType |-> <<>>, openingBalance |-> "",
     sourceOfInitialFunds |-> "", sourceOfFunds |-> <<>>,
     otherSourceOfFunds |-> "", valueOfFunds |-> "", countryOfFunds |-> <<>>]

\* mutant: calls onSubmit whatever the resolver reports
handleSubmit_AlwaysCalls(form, issues) ==
    [form |-> form, called |-> TRUE, errors |-> {}]

\* form.handleSubmit(onSubmit) with the zod resolver: onSubmit is called
\* with the values when the resolver reports no issue; otherwise the issues
\* become the form's errors and onSubmit is not called
handleSubmit(form, issues) ==
    IF issues = {} THEN [form |-> form, called |-> TRUE, errors |-> {}]
    ELSE [form |-> form, called |-> FALSE, errors |-> issues]

(***************************************************************************)
(* State                                                                   *)
(***************************************************************************)
VARIABLES
    tab,                      \* the selected tab of SSASFormPage
    corporate,                \* the form values of CorporateForm (useForm)
    individual,               \* the form values of IndividualForm (useForm)
    showPreviousAddresses,    \* useState(false)
    showCommunicationAddress, \* useState(false)
    showSecondNationality,    \* useState(false)
    submitResult,             \* what form.handleSubmit did in the event just
                              \* handled; NoSubmit after any other event
    helperInput,              \* the argument of a form-helpers.ts call
    helperOutput              \* and what the call returned

vars == <<tab, corporate, individual, showPreviousAddresses,
          showCommunicationAddress, showSecondNationality, submitResult,
          helperInput, helperOutput>>

\* the state outside the IndividualForm component
notIndividualVars == <<tab, corporate, helperInput, helperOutput>>

\* the useState flags of IndividualForm
flagVars == <<showPreviousAddresses, showCommunicationAddress, showSecondNationality>>

\* the state of the forms
formVars == <<tab, corporate, individual, showPreviousAddresses,
              showCommunicationAddress, showSecondNationality, submitResult>>

NotCalled == [called |-> FALSE, value |-> <<>>]

NoSubmit == [form |-> "none", called |-> FALSE, errors |-> {}]

\* the texts typed into the text inputs the model edits
TextSamples == {"", "a"}

\* the entry fields and communication-address fields the model edits
EditedAddressFields == {"address1"}

\* the values of the nationalities list offered by the second-nationality Select
NationalityCodes == {"british"}

(***************************************************************************)
(* IndividualForm: events                                                  *)
(***************************************************************************)
\* mutant: the rule is evaluated before the typed value is written
YearsAtAddressOnChange_StaleValue(text) ==
    LET r == handleAddressTimeChange(individual, showPreviousAddresses)
    IN  /\ tab = "individual"
        /\ individual' = [r.values EXCEPT !.yearsAtAddress = parseInt(text)]
        /\ showPreviousAddresses' = r.show
        /\ submitResult' = NoSubmit
        /\ UNCHANGED notIndividualVars
        /\ UNCHANGED <<showCommunicationAddress, showSecondNationality>>

\* onChange of the Years at Address input: field.onChange(parseInt(value)),
\* then handleAddressTimeChange() on the updated form values
YearsAtAddressOnChange(text) ==
    LET r == handleAddressTimeChange(
                 [individual EXCEPT !.yearsAtAddress = parseInt(text)],
                 showPreviousAddresses)
    IN  /\ tab = "individual"
        /\ individual' = r.values
        /\ showPreviousAddresses' = r.show
        /\ submitResult' = NoSubmit
        /\ UNCHANGED notIndividualVars
        /\ UNCHANGED <<showCommunicationAddress, showSecondNationality>>

\* onChange of the Months at Address input
MonthsAtAddressOnChange(text) ==
    LET r == handleAddressTimeChange(
                 [individual EXCEPT !.monthsAtAddress = parseInt(text)],
                 showPreviousAddresses)
    IN  /\ tab = "individual"
        /\ individual' = r.values
        /\ showPreviousAddresses' = r.show
        /\ submitResult' = NoSubmit
        /\ UNCHANGED notIndividualVars
        /\ UNCHANGED <<showCommunicationAddress, showSecondNationality>>

\* onCheckedChange of the Communication Address checkbox
IsCommunicationAddressOnCheckedChange(checked) ==
    LET r == handleCommunicationAddressChange(
                 [individual EXCEPT !.isCommunicationAddress = checked], checked)
    IN  /\ tab = "individual"
        /\ individual' = r.values
        /\ showCommunicationAddress' = r.show
        /\ submitResult' = NoSubmit
        /\ UNCHANGED notIndividualVars
        /\ UNCHANGED <<showPreviousAddresses, showSecondNationality>>

\* onCheckedChange of the Dual Nationality checkbox
HasDualNationalityOnCheckedChange(checked) ==
    LET r == handleDualNationalityChange(
                 [individual EXCEPT !.hasDualNationality = checked], checked)
    IN  /\ tab = "individual"
        /\ individual' = r.values
        /\ showSecondNationality' = r.show
        /\ submitResult' = NoSubmit
        /\ UNCHANGED notIndividualVars
        /\ UNCHANGED <<showPreviousAddresses, showCommunicationAddress>>

\* mutant: the Select is rendered whatever the flag
SecondNationalityOnValueChange_AlwaysRendered(v) ==
    /\ tab = "individual"
    /\ individual' = [individual EXCEPT !.secondNationality = v]
    /\ submitResult' = NoSubmit
    /\ UNCHANGED notIndividualVars
    /\ UNCHANGED <<showPreviousAddresses, showCommunicationAddress,
                   showSecondNationality>>

\* the Second Nationality Select, rendered only while showSecondNationality
SecondNationalityOnValueChange(v) ==
    /\ tab = "individual"
    /\ showSecondNationality
    /\ individual' = [individual EXCEPT !.secondNationality = v]
    /\ submitResult' = NoSubmit
    /\ UNCHANGED notIndividualVars
    /\ UNCHANGED <<showPreviousAddresses, showCommunicationAddress,
                   showSecondNationality>>

\* a click on the Add Previous Address button, rendered inside the
\* previous-addresses section while fewer than 3 entries are held
AddPreviousAddressClick ==
    /\ tab = "individual"
    /\ AddPreviousAddressOffered(individual, showPreviousAddresses)
    /\ individual' = addPreviousAddress(individual)
    /\ submitResult' = NoSubmit
    /\ UNCHANGED notIndividualVars
    /\ UNCHANGED <<showPreviousAddresses, showCommunicationAddress,
                   showSecondNationality>>

\* typing into a text input of previous address i (rendered while the
\* section is shown, one block per entry)
PreviousAddressFieldOnChange(i, f, v) ==
    /\ tab = "individual"
    /\ showPreviousAddresses
    /\ i \in 1..Len(individual.previousAddresses)
    /\ individual' = [individual EXCEPT !.previousAddresses[i][f] = v]
    /\ submitResult' = NoSubmit
    /\ UNCHANGED notIndividualVars
    /\ UNCHANGED <<showPreviousAddresses, showCommunicationAddress,
                   showSecondNationality>>

\* typing into a text input of the communication address (rendered while
\* showCommunicationAddress)
CommunicationAddressFieldOnChange(f, v) ==
    /\ tab = "individual"
    /\ showCommunicationAddress
    /\ individual.communicationAddress # Undefined
    /\ individual' = [individual EXCEPT !.communicationAddress[f] = v]
    /\ submitResult' = NoSubmit
    /\ UNCHANGED notIndividualVars
    /\ UNCHANGED <<showPreviousAddresses, showCommunicationAddress,
                   showSecondNationality>>

(***************************************************************************)
(* The IndividualForm session                                              *)
(***************************************************************************)
\* a field bound with {...field} or onValueChange={field.onChange}: the
\* text typed or the option chosen becomes the value
IndividualFieldOnChange(f, v) ==
    /\ tab = "individual"
    /\ individual' = [individual EXCEPT ![f] = v]
    /\ submitResult' = NoSubmit
    /\ UNCHANGED notIndividualVars
    /\ UNCHANGED flagVars

\* the employeeId number input: field.onChange(parseInt(e.target.value))
EmployeeIdOnChange(text) ==
    /\ tab = "individual"
    /\ individual' = [individual EXCEPT !.employeeId = parseInt(text)]
    /\ submitResult' = NoSubmit
    /\ UNCHANGED notIndividualVars
    /\ UNCHANGED flagVars

Includes(list, v) == \E k \in 1..Len(list) : list[k] = v

\* mutant: the chosen country is appended without looking at the list
TaxContributingCountryOnValueChange_NoDedupe(value) ==
    /\ tab = "individual"
    /\ individual' = [individual EXCEPT !.taxContributingCountry = Append(@, value)]
    /\ submitResult' = NoSubmit
    /\ UNCHANGED notIndividualVars
    /\ UNCHANGED flagVars

\* choosing a country in the taxContributingCountry select: appended unless
\* the list includes it
TaxContributingCountryOnValueChange(value) ==
    /\ tab = "individual"
    /\ individual' =
         IF Includes(individual.taxContributingCountry, value) THEN individual
         ELSE [individual EXCEPT !.taxContributingCountry = Append(@, value)]
    /\ submitResult' = NoSubmit
    /\ UNCHANGED notIndividualVars
    /\ UNCHANGED flagVars

\* the Remove button next to a listed tax contributing country
TaxContributingCountryRemoveClick(country) ==
    /\ tab = "individual"
    /\ Includes(individual.taxContributingCountry, country)
    /\ individual' = [individual EXCEPT !.taxContributingCountry =
                          SelectSeq(@, LAMBDA c : c # country)]
    /\ submitResult' = NoSubmit
    /\ UNCHANGED notIndividualVars
    /\ UNCHANGED flagVars

\* mutant: a successful submit resets the form to its defaults
SubmitIndividual_ResetsForm ==
    LET result == handleSubmit("individual", individualFormSchema(individual))
    IN  /\ tab = "individual"
        /\ submitResult' = result
        /\ individual' = IF result.called THEN IndividualDefaultValues ELSE individual
        /\ UNCHANGED flagVars
        /\ UNCHANGED notIndividualVars

\* the submit event of IndividualForm: form.handleSubmit(onSubmit)
SubmitIndividual ==
    /\ tab = "individual"
    /\ submitResult' = handleSubmit("individual", individualFormSchema(individual))
    /\ UNCHANGED <<individual, flagVars>>
    /\ UNCHANGED notIndividualVars

\* the fields of CorporateForm whose schema is z.number()
CorporateNumberFields ==
    {"howManyToSign", "howManyFromCorporateTrustee", "howManyMembers",
     "depositPerAnnum", "annualOutgoings", "anticipatedActivity",
     "anticipatedTransactions"}

\* an input bound with form.register(f): its text becomes the value, a
\* string also where the schema wants a number
CorporateInputOnChange(f, text) ==
    /\ tab = "corporate"
    /\ corporate' = [corporate EXCEPT ![f] =
                         IF f \in CorporateNumberFields THEN Str(text) ELSE text]
    /\ submitResult' = NoSubmit
    /\ UNCHANGED <<individual, flagVars, helperInput, helperOutput, tab>>

\* typing character c at the end of the telephone or mobile input:
\* form.setValue(f, formatPhoneNumber(e.target.value))
CorporatePhoneOnChange(f, c) ==
    /\ tab = "corporate"
    /\ corporate' = [corporate EXCEPT ![f] = formatPhoneNumber(@ \o <<c>>)]
    /\ submitResult' = NoSubmit
    /\ UNCHANGED <<individual, flagVars, helperInput, helperOutput, tab>>

\* choosing an option in a multi-value select of CorporateForm: appended,
\* whether or not the list holds it already
CorporateSelectOnValueChange(f, value) ==
    /\ tab = "corporate"
    /\ corporate' = [corporate EXCEPT ![f] = Append(@, value)]
    /\ submitResult' = NoSubmit
    /\ UNCHANGED <<individual, flagVars, helperInput, helperOutput, tab>>

\* the submit event of CorporateForm: form.handleSubmit(onSubmit)
SubmitCorporate ==
    /\ tab = "corporate"
    /\ submitResult' = handleSubmit("corporate", corporateFormSchema(corporate))
    /\ UNCHANGED <<corporate, individual, flagVars, helperInput, helperOutput, tab>>

\* clicking the other TabsTrigger: the content of the tab left is unmounted
\* and the selected tab's form mounts with its defaults
SelectTab(t) ==
    /\ t # tab
    /\ tab' = t
    /\ corporate' = CorporateDefaultValues
    /\ individual' = IndividualDefaultValues
    /\ showPreviousAddresses' = FALSE
    /\ showCommunicationAddress' = FALSE
    /\ showSecondNationality' = FALSE
    /\ submitResult' = NoSubmit
    /\ UNCHANGED <<helperInput, helperOutput>>

\* both components as useForm and useState construct them
FormsAsMounted ==
    /\ corporate = CorporateDefaultValues
    /\ individual = IndividualDefaultValues
    /\ showPreviousAddresses = FALSE
    /\ showCommunicationAddress = FALSE
    /\ showSecondNationality = FALSE
    /\ submitResult = NoSubmit

\* the IndividualForm component right after it mounts
Init ==
    /\ tab = "individual"
    /\ FormsAsMounted
    /\ helperInput = <<>>
    /\ helperOutput = NotCalled

Next ==
    \/ \E text \in NumberInputTexts(MaxYears) : YearsAtAddressOnChange(text)
    \/ \E text \in NumberInputTexts(MaxMonths) : MonthsAtAddressOnChange(text)
    \/ \E checked \in BOOLEAN : IsCommunicationAddressOnCheckedChange(checked)
    \/ \E checked \in BOOLEAN : HasDualNationalityOnCheckedChange(checked)
    \/ \E v \in NationalityCodes : SecondNationalityOnValueChange(v)
    \/ AddPreviousAddressClick
    \/ \E i \in 1..MaxPreviousAddresses, f \in EditedAddressFields, v \in TextSamples :
          PreviousAddressFieldOnChange(i, f, v)
    \/ \E f \in EditedAddressFields, v \in TextSamples :
          CommunicationAddressFieldOnChange(f, v)

Spec == Init /\ [][Next]_vars

(***************************************************************************)
(* Claims about the previous-addresses rule                                *)
(***************************************************************************)
\* a change event of one of the two duration inputs
DurationOnChange ==
    \/ \E text \in NumberInputTexts(MaxYears) : YearsAtAddressOnChange(text)
    \/ \E text \in NumberInputTexts(MaxMonths) : MonthsAtAddressOnChange(text)

BelowThreshold(vals) == JsLt(TotalMonths(vals), Num(PreviousAddressThreshold))

AtOrAboveThreshold(vals) == JsGe(TotalMonths(vals), Num(PreviousAddressThreshold))

\* C1 (as claimed): in every reachable state, the mounted default state
\* included, the previous-addresses section is visible exactly when
\* years*12 + months < 36 and hidden exactly when that total is >= 36.
C1_VisibleExactlyBelowThreshold ==
    /\ showPreviousAddresses <=> BelowThreshold(individual)
    /\ ~showPreviousAddresses <=> AtOrAboveThreshold(individual)

\* C2: a duration change that brings the total to 35 months while the
\* section is hidden shows it with exactly one empty entry; a duration change
\* that makes the total 36 months leaves the section hidden and the list
\* empty, however many entries it held.
C2_BoundaryCrossing ==
    [][ /\ ( /\ ~showPreviousAddresses
             /\ TotalMonths(individual') = Num(35)
             /\ DurationOnChange )
           => ( /\ showPreviousAddresses'
                /\ individual'.previousAddresses = <<EmptyPreviousAddress>> )
        /\ ( /\ TotalMonths(individual') = Num(36)
             /\ DurationOnChange )
           => ( /\ ~showPreviousAddresses'
                /\ individual'.previousAddresses = <<>> )
      ]_vars

\* C2 witness: the section shown at 35 months (2 years 11 months) holding
\* the single empty entry
C2_Witness ==
    /\ individual.yearsAtAddress = Num(2)
    /\ individual.monthsAtAddress = Num(11)
    /\ showPreviousAddresses
    /\ individual.previousAddresses = <<EmptyPreviousAddress>>

\* C3: while the section is visible, a duration change that leaves the total
\* below 36 months changes neither the list nor the flag; a duration change
\* alters the list only when it crosses the threshold against the flag.
C3_EdgeTriggered ==
    [][ /\ ( /\ showPreviousAddresses
             /\ BelowThreshold(individual')
             /\ DurationOnChange )
           => ( /\ individual'.previousAddresses = individual.previousAddresses
                /\ showPreviousAddresses' = showPreviousAddresses )
        /\ ( /\ individual'.previousAddresses # individual.previousAddresses
             /\ DurationOnChange )
           => ( \/ ~showPreviousAddresses /\ BelowThreshold(individual')
                \/ showPreviousAddresses /\ AtOrAboveThreshold(individual') )
      ]_vars

\* C3 witness: two entries, the first one filled in, kept while the duration
\* stands at 35 months
C3_Witness ==
    /\ showPreviousAddresses
    /\ TotalMonths(individual) = Num(35)
    /\ Len(individual.previousAddresses) = 2
    /\ individual.previousAddresses[1].address1 = "a"

\* C4: the list never holds more than 3 entries, and with 3 entries held
\* addPreviousAddress changes nothing and the add button is not offered.
C4_AtMostThreeEntries ==
    /\ Len(individual.previousAddresses) <= 3
    /\ Len(individual.previousAddresses) = 3
         => /\ addPreviousAddress(individual) = individual
            /\ ~AddPreviousAddressOffered(individual, showPreviousAddresses)

\* C4 witness: the section shown with 3 entries
C4_Witness ==
    showPreviousAddresses /\ Len(individual.previousAddresses) = 3

(***************************************************************************)
(* Claims about the communication-address and dual-nationality toggles     *)
(***************************************************************************)
\* C5: communicationAddress is undefined and the section hidden exactly when
\* isCommunicationAddress is true; the record is present and the section
\* shown exactly when it is false.
C5_CommunicationAddressFollowsFlag ==
    /\ individual.isCommunicationAddress
         <=> individual.communicationAddress = Undefined
    /\ individual.isCommunicationAddress <=> ~showCommunicationAddress

\* C5 witness: unchecked, the section shown and the record filled in
C5_Witness ==
    /\ ~individual.isCommunicationAddress
    /\ showCommunicationAddress
    /\ individual.communicationAddress # Undefined
    /\ individual.communicationAddress.address1 = "a"

\* C6: the second-nationality field is shown exactly when hasDualNationality
\* is true, and every event that unchecks hasDualNationality leaves
\* secondNationality empty.
C6_SecondNationalityFollowsFlag ==
    /\ [](showSecondNationality <=> individual.hasDualNationality)
    /\ [][ HasDualNationalityOnCheckedChange(FALSE)
             => individual'.secondNationality = "" ]_vars

\* C6 witness: dual nationality checked and a second nationality chosen,
\* the state from which an uncheck has a value to clear
C6_Witness ==
    /\ individual.hasDualNationality
    /\ showSecondNationality
    /\ individual.secondNationality = "british"

(***************************************************************************)
(* formatPhoneNumber applied to bounded inputs                             *)
(***************************************************************************)
\* the longest run of digits among the inputs
MaxPhoneDigits == 14
\* the inputs' digit runs start at digit 0..MaxDigitOffset
MaxDigitOffset == 1

\* n digits, the k-th being (offset + k) mod 10: no two runs of 12 look alike
DigitRun(n, offset) == [k \in 1..n |-> DigitChars[((offset + k) % 10) + 1]]

InsertAt(text, p, c) == SubSeq(text, 1, p) \o <<c>> \o SubSeq(text, p + 1, Len(text))

\* characters a user types between the digits of a phone number
PhoneSeparators == {" ", "+", "-", "("}

\* a digit run typed in the international layout: "+", and a space after
\* the 2nd and after the 6th digit
TypedInternational(run) ==
    <<"+">> \o SubSeq(run, 1, 2) \o <<" ">> \o SubSeq(run, 3, 6)
    \o <<" ">> \o SubSeq(run, 7, Len(run))

PhoneInputs ==
    LET runs == {DigitRun(n, o) : n \in 0..MaxPhoneDigits, o \in 0..MaxDigitOffset}
    IN  runs
        \cup UNION {{InsertAt(r, p, c) : p \in 0..Len(r), c \in PhoneSeparators} : r \in runs}
        \cup {TypedInternational(r) : r \in {q \in runs : Len(q) >= 6}}

InitPhone ==
    /\ tab = "corporate"
    /\ FormsAsMounted
    /\ helperInput \in PhoneInputs
    /\ helperOutput = NotCalled

CallFormatPhoneNumber ==
    /\ ~helperOutput.called
    /\ helperOutput' = [called |-> TRUE, value |-> formatPhoneNumber(helperInput)]
    /\ UNCHANGED <<helperInput, formVars>>

NextPhone == CallFormatPhoneNumber

SpecPhone == InitPhone /\ [][NextPhone]_vars

\* C8 (as claimed): for every input whose digit count is not exactly 12,
\* formatPhoneNumber returns the digit-stripped input, with no "+" and no
\* space inserted.
C8_PassthroughUnlessTwelveDigits ==
    ( /\ helperOutput.called
      /\ Len(StripNonDigits(helperInput)) # 12 )
    => helperOutput.value = StripNonDigits(helperInput)

\* C9: for every input with exactly 12 digits the result is 15 characters:
\* "+", digits 1-2, a space, digits 3-6, a space, digits 7-12, the digits
\* being those of the input in their order.
C9_TwelveDigitsRegrouped ==
    ( /\ helperOutput.called
      /\ Len(StripNonDigits(helperInput)) = 12 )
    => LET d   == StripNonDigits(helperInput)
           out == helperOutput.value
       IN  /\ Len(out) = 15
           /\ out[1] = "+" /\ out[4] = " " /\ out[9] = " "
           /\ \A k \in 1..2 : out[1 + k] = d[k]
           /\ \A k \in 3..6 : out[2 + k] = d[k]
           /\ \A k \in 7..12 : out[3 + k] = d[k]

\* C9 witness: a 12-digit number typed with "+" and spaces has been formatted
C9_Witness ==
    /\ helperOutput.called
    /\ helperInput = TypedInternational(DigitRun(12, 0))
    /\ Len(helperOutput.value) = 15

(***************************************************************************)
(* formatCurrency and parseCurrency applied to bounded amounts             *)
(***************************************************************************)
\* the amounts have up to MaxUnitDigits digits before the decimal point
MaxUnitDigits == 6

\* whole pounds of the sampled amounts: 0, and for every length the
\* smallest number, the largest, and the number 1234...
UnitSamples ==
    {0} \cup {Pow10(k - 1) : k \in 1..MaxUnitDigits}
        \cup {Pow10(k) - 1 : k \in 1..MaxUnitDigits}
        \cup {DigitsToNat(DigitRun(k, 0)) : k \in 1..MaxUnitDigits}

\* amounts with two decimal places, of either sign
CurrencyAmounts ==
    {Dec(s * (u * 100 + p), 2) : s \in {1, -1}, u \in UnitSamples, p \in 0..99}

InitCurrency ==
    /\ tab = "corporate"
    /\ FormsAsMounted
    /\ helperInput \in CurrencyAmounts
    /\ helperOutput = NotCalled

\* parseCurrency(formatCurrency(x))
CallFormatThenParseCurrency ==
    /\ ~helperOutput.called
    /\ helperOutput' = [called |-> TRUE,
                        value |-> parseCurrency(formatCurrency(helperInput))]
    /\ UNCHANGED <<helperInput, formVars>>

NextCurrency == CallFormatThenParseCurrency

SpecCurrency == InitCurrency /\ [][NextCurrency]_vars

\* C10: for every amount x with at most two decimal places,
\* parseCurrency(formatCurrency(x)) is a number and equals x to two decimal
\* places.
C10_CurrencyRoundTrip ==
    helperOutput.called
    => /\ ~helperOutput.value.nan
       /\ RoundToPence(helperOutput.value) = RoundToPence(helperInput)

\* C10 witness: a negative amount above 1000 (rendered with a thousands
\* separator) has made the round trip
C10_Witness ==
    /\ helperOutput.called
    /\ helperInput = Dec(0 - 123456, 2)
    /\ helperOutput.value = Dec(0 - 123456, 2)

(***************************************************************************)
(* SSASFormPage: the two tabs, both forms and their submit events          *)
(***************************************************************************)
\* the multi-value selects of CorporateForm hold up to MaxSelections values
MaxSelections == 2
\* up to MaxTypedDigits digits are typed into a corporate phone input
MaxTypedDigits == 14

\* the required fields of IndividualForm that are plain inputs and selects,
\* in the order of the page
RequiredFieldOrder ==
    <<"pstrId", "employeeId", "title", "firstName", "surname", "dateOfBirth",
      "gender", "primaryNationality", "countryOfBirth", "telephone", "mobile",
      "email", "typeOfEmployment", "occupation", "address1", "address2",
      "postcode", "country">>

\* the values entered into a required field: one the schema accepts and,
\* for the fields with a pattern, one it rejects
FieldSamples(f) ==
    CASE f = "telephone" -> {DigitRun(14, 0), DigitRun(13, 0)}
      [] f = "mobile"    -> {DigitRun(10, 0)}
      [] f = "email"     -> {<<"a", "@", "b", ".", "c", "o">>, <<"a", "@", "b">>}
      [] f = "postcode"  -> {"SW1A 1AA", "SW1A 1AAA"}
      [] OTHER           -> {"a"}

\* the user fills the page from the top: the first required field that
\* still holds its default
FieldsToFill(vals) ==
    LET open == {k \in 1..Len(RequiredFieldOrder) :
                    vals[RequiredFieldOrder[k]]
                        = IndividualDefaultValues[RequiredFieldOrder[k]]}
    IN  IF open = {} THEN {}
        ELSE {RequiredFieldOrder[CHOOSE k \in open : \A j \in open : k <= j]}

\* the digit typed next into a phone input holding text
NextDigit(text) == DigitChars[((Len(StripNonDigits(text)) + 1) % 10) + 1]

\* the page as it first renders: Tabs defaultValue="corporate"
InitForms ==
    /\ tab = "corporate"
    /\ FormsAsMounted
    /\ helperInput = <<>>
    /\ helperOutput = NotCalled

NextForms ==
    \/ \E t \in {"corporate", "individual"} : SelectTab(t)
    \/ \E text \in {<<>>, NatToText(0), NatToText(MaxYears)} :
           YearsAtAddressOnChange(text)
    \/ \E text \in NumberInputTexts(1) : MonthsAtAddressOnChange(text)
    \/ \E checked \in BOOLEAN : IsCommunicationAddressOnCheckedChange(checked)
    \/ \E f \in EditedAddressFields, v \in TextSamples \ {""} :
           PreviousAddressFieldOnChange(1, f, v)
    \/ \E f \in EditedAddressFields, v \in TextSamples \ {""} :
           CommunicationAddressFieldOnChange(f, v)
    \/ \E f \in FieldsToFill(individual) \ {"employeeId"} :
           \E v \in FieldSamples(f) : IndividualFieldOnChange(f, v)
    \/ /\ "employeeId" \in FieldsToFill(individual)
       /\ EmployeeIdOnChange(NatToText(1))
    \/ \E value \in NationalityCodes : TaxContributingCountryOnValueChange(value)
    \/ \E country \in NationalityCodes : TaxContributingCountryRemoveClick(country)
    \/ SubmitIndividual
    \/ \E text \in TextSamples : CorporateInputOnChange("pstrId", text)
    \/ \E text \in NumberInputTexts(1) : CorporateInputOnChange("howManyToSign", text)
    \/ \E f \in {"telephone", "mobile"} :
           /\ Len(StripNonDigits(corporate[f])) < MaxTypedDigits
           /\ CorporatePhoneOnChange(f, NextDigit(corporate[f]))
    \/ /\ Len(corporate.countryOfPayments) < MaxSelections
       /\ \E value \in NationalityCodes :
              CorporateSelectOnValueChange("countryOfPayments", value)
    \/ SubmitCorporate

SpecForms == InitForms /\ [][NextForms]_vars

\* C7: for both forms, a submit event invokes onSubmit only if the whole
\* draft satisfies every rule of the form's schema; when a rule is violated
\* onSubmit is not invoked and an error is reported at the path of every
\* violated rule.
C7_SubmitOnlyWhenValid ==
    /\ submitResult.form = "individual"
         => /\ submitResult.called => individualFormSchema(individual) = {}
            /\ individualFormSchema(individual) # {}
                 => /\ ~submitResult.called
                    /\ submitResult.errors = individualFormSchema(individual)
    /\ submitResult.form = "corporate"
         => /\ submitResult.called => corporateFormSchema(corporate) = {}
            /\ corporateFormSchema(corporate) # {}
                 => /\ ~submitResult.called
                    /\ submitResult.errors = corporateFormSchema(corporate)

\* C7 witness: a submit event of IndividualForm has invoked onSubmit
C7_Witness ==
    /\ submitResult.form = "individual"
    /\ submitResult.called
    /\ individual.email = <<"a", "@", "b", ".", "c", "o">>

\* a submit event with a single violated rule: refused, one error
C7_WitnessRefused ==
    /\ submitResult.form = "individual"
    /\ ~submitResult.called
    /\ submitResult.errors = {Issue("email", "Please enter a valid email address")}

\* C20 (as claimed): when 14 digits have been entered into the telephone
\* (or mobile) input of the corporate form, the value its onChange handler
\* stored passes the field's 14-digit rule when the draft is validated.
C20_FourteenDigitsPass ==
    submitResult.form = "corporate"
    => \A f \in {"telephone", "mobile"} :
           Len(StripNonDigits(corporate[f])) = 14
               => \A issue \in submitResult.errors : issue.path # f

(***************************************************************************)
(* corporateFormSchema applied to bounded records                          *)
(***************************************************************************)
\* the counts and magnitudes of the records go up to MaxCount
MaxCount == 2

\* a record that satisfies every rule of corporateFormSchema
ValidCorporateRecord ==
    [pstrId |-> "a", pensionSchemeName |-> "a", contactName |-> "a",
     positionInOrganization |-> "a", pensionProvider |-> "a",
     telephone |-> DigitRun(14, 0), mobile |-> DigitRun(14, 1),
     email |-> <<"a", "@", "b", ".", "c", "o">>,
     addressType |-> "a", address1 |-> "a", address2 |-> "a", address3 |-> "",
     address4 |-> "", postcode |-> "a", country |-> "a",
     isCurrentAddress |-> FALSE, isPermanentAddress |-> FALSE,
     isCommunicationAddress |-> FALSE,
     howManyToSign |-> Num(1), howManyFromCorporateTrustee |-> Num(0),
     howManyMembers |-> Num(1),
     isOccupationalScheme |-> FALSE, permitAssignmentOfInterest |-> FALSE,
     hasDeductionFromEmployeeWages |-> FALSE, dateOfRegistration |-> "a",
     hasCorporateTrustee |-> FALSE,
     depositPerAnnum |-> Num(0), annualOutgoings |-> Num(0),
     anticipatedActivity |-> Num(0), anticipatedTransactions |-> Num(0),
     countryOfPayments |-> <<"GB">>, schemeRegistrationCountry |-> "United Kingdom",
     contributorLegalName |-> "a", contributorTradingName |-> "",
     contributorAddress1 |-> "a", contributorAddress2 |-> "",
     contributorAddress3 |-> "", contributorAddress4 |-> "",
     contributorPostcode |-> "", contributorCountry |-> "a",
     contributorDateOfIncorporation |-> "a", contributorDateOfRegistration |-> "a",
     contributorDateStartedTrading |-> "a", contributorNatureOfBusiness |-> "a",
     contributorCountriesOperatesIn |-> <<"GB">>,
     contributorManagement |->
         <<[firstName |-> "a", middleName |-> "", surname |-> "a", position |-> "a"]>>,
     professionalCoSignatory |-> "a", coSignCompanyName |-> "a",
     coSignAddress |-> "a", coSignTelephone |-> <<"1">>,
     coSignEmail |-> <<"a", "@", "b", ".", "c", "o">>,
     regulatorReferenceNumber |-> "a",
     tcAcknowledgement |-> TRUE, accountType |-> <<"a">>, openingBalance |-> "a",
     sourceOfInitialFunds |-> "a", sourceOfFunds |-> <<"a">>,
     otherSourceOfFunds |-> "", valueOfFunds |-> "a", countryOfFunds |-> <<"GB">>]

\* what a numeric field of a record can hold: absent, not a number, a
\* string, an integer from -1 to MaxCount, or such an integer plus 0.5
NumberSamples ==
    {Undefined, NaN, Str(<<"1">>)}
        \cup {Num(k) : k \in (0 - 1)..MaxCount}
        \cup {NumHalf(k) : k \in (0 - 1)..MaxCount}

\* values of schemeRegistrationCountry
CountrySamples ==
    {"United Kingdom", "", "united kingdom", "UNITED KINGDOM", "GB",
     "United Kingdom ", "England"}

\* the valid record with one numeric field and the registration country
\* replaced
CorporateRecords ==
    {[ValidCorporateRecord EXCEPT ![f] = v, !.schemeRegistrationCountry = c] :
        f \in CorporateNumberFields, v \in NumberSamples, c \in CountrySamples}

InitCorporateSchema ==
    /\ tab = "corporate"
    /\ FormsAsMounted
    /\ helperInput \in CorporateRecords
    /\ helperOutput = NotCalled

\* the resolver run on a record: corporateFormSchema's issues
ValidateCorporate ==
    /\ ~helperOutput.called
    /\ helperOutput' = [called |-> TRUE, value |-> corporateFormSchema(helperInput)]
    /\ UNCHANGED <<helperInput, formVars>>

NextCorporateSchema == ValidateCorporate

SpecCorporateSchema == InitCorporateSchema /\ [][NextCorporateSchema]_vars

\* the paths at which a set of issues reports an error
ErrorPaths(issues) == {i.path : i \in issues}

\* C11: a corporate record valid in every other field whose howManyMembers
\* is 0 or absent fails validation with exactly one error, a "required"
\* error at the path howManyMembers.
C11_MissingMembersOnlyError ==
    ( /\ helperOutput.called
      /\ helperInput = [ValidCorporateRecord EXCEPT
                            !.howManyMembers = helperInput.howManyMembers]
      /\ helperInput.howManyMembers \in {Num(0), Undefined} )
    => /\ helperOutput.value # {}
       /\ ErrorPaths(helperOutput.value) = {"howManyMembers"}
       /\ helperOutput.value \in
            { {Issue("howManyMembers", "Number of members is required")},
              {Issue("howManyMembers", "Required")} }

\* C11 witness: the record with howManyMembers = 0 has been validated
C11_Witness ==
    /\ helperOutput.called
    /\ helperInput = [ValidCorporateRecord EXCEPT !.howManyMembers = Num(0)]
    /\ helperOutput.value = {Issue("howManyMembers", "Number of members is required")}

\* C11 witness: the record without howManyMembers has been validated
C11_WitnessAbsent ==
    /\ helperOutput.called
    /\ helperInput = [ValidCorporateRecord EXCEPT !.howManyMembers = Undefined]
    /\ helperOutput.value = {Issue("howManyMembers", "Required")}

\* C16: schemeRegistrationCountry is accepted exactly when it is the string
\* "United Kingdom"; every other value has an error at that path.
C16_OnlyUnitedKingdom ==
    helperOutput.called
    => ( "schemeRegistrationCountry" \in ErrorPaths(helperOutput.value)
           <=> helperInput.schemeRegistrationCountry # "United Kingdom" )

\* C16 witness: the country code "GB" has been rejected, and nothing else
C16_Witness ==
    /\ helperOutput.called
    /\ helperInput = [ValidCorporateRecord EXCEPT !.schemeRegistrationCountry = "GB"]
    /\ ErrorPaths(helperOutput.value) = {"schemeRegistrationCountry"}

\* a number that is an integer and at least min
IsIntegerAtLeast(v, min) ==
    /\ v # Undefined
    /\ IsJsNumber(v)
    /\ ~v.nan
    /\ ~IsFractional(v)
    /\ v.n >= min

\* a number (integer or not) that is at least min
IsNumberAtLeast(v, min) ==
    /\ v # Undefined
    /\ IsJsNumber(v)
    /\ ~v.nan
    /\ v.n >= min

\* C18 (as claimed): howManyToSign and howManyMembers are accepted only when
\* integers >= 1, howManyFromCorporateTrustee only when an integer >= 0, the
\* four magnitudes only when >= 0.
C18_CountsAreIntegers ==
    helperOutput.called
    => LET accepted(f) == f \notin ErrorPaths(helperOutput.value)
       IN  /\ accepted("howManyToSign")
                => IsIntegerAtLeast(helperInput.howManyToSign, 1)
           /\ accepted("howManyMembers")
                => IsIntegerAtLeast(helperInput.howManyMembers, 1)
           /\ accepted("howManyFromCorporateTrustee")
                => IsIntegerAtLeast(helperInput.howManyFromCorporateTrustee, 0)
           /\ \A f \in {"depositPerAnnum", "annualOutgoings", "anticipatedActivity",
                        "anticipatedTransactions"} :
                  accepted(f) => IsNumberAtLeast(helperInput[f], 0)

(***************************************************************************)
(* individualFormSchema applied to bounded records                         *)
(***************************************************************************)
\* a record that satisfies every rule of individualFormSchema
ValidIndividualRecord ==
    [pstrId |-> "a", employeeId |-> Num(1), title |-> "a", firstName |-> "a",
     middleName |-> "", surname |-> "a", isSigner |-> FALSE,
     isTrusteeOfScheme |-> FALSE, dateOfBirth |-> "a", gender |-> "a",
     primaryNationality |-> "a", countryOfBirth |-> "a",
     hasDualNationality |-> FALSE, secondNationality |-> "",
     telephone |-> DigitRun(14, 0), mobile |-> DigitRun(10, 0),
     email |-> <<"a", "@", "b", ".", "c", "o">>,
     typeOfEmployment |-> "a", occupation |-> "a",
     marketingPreferences |-> <<>>,
     address1 |-> "a", address2 |-> "a", address3 |-> "", address4 |-> "",
     postcode |-> "a", country |-> "a",
     isCurrentAddress |-> TRUE, isPermanentAddress |-> TRUE,
     isCommunicationAddress |-> TRUE,
     yearsAtAddress |-> Num(MaxYears), monthsAtAddress |-> Num(0),
     previousAddresses |-> <<>>,
     communicationAddress |-> Undefined,
     taxContributingCountry |-> <<"british">>, foreignTinId |-> ""]

\* record r without the fields fs
Without(r, fs) == [f \in DOMAIN r \ fs |-> r[f]]

\* hasDualNationality and secondNationality in every combination, the
\* second nationality empty, given or absent
NationalityVariants(r) ==
    {[r EXCEPT !.hasDualNationality = d, !.secondNationality = n] :
        d \in BOOLEAN, n \in {""} \cup NationalityCodes}
    \cup {Without([r EXCEPT !.hasDualNationality = d], {"secondNationality"}) :
             d \in BOOLEAN}

\* texts offered to a field whose rule is exactly n digits
DigitFieldSamples(n) ==
    {<<>>, DigitRun(n - 1, 0), DigitRun(n, 0), DigitRun(n, 1), DigitRun(n + 1, 0),
     <<"+">> \o DigitRun(n, 0), DigitRun(n, 0) \o <<" ">>,
     <<" ">> \o DigitRun(n - 1, 0), InsertAt(DigitRun(n - 1, 0), 2, "a"),
     InsertAt(DigitRun(n, 0), 2, " ")}

\* a previous address with its required fields filled in
FilledPreviousAddress ==
    [EmptyPreviousAddress EXCEPT !.address1 = "a", !.address2 = "a",
                                 !.postcode = "a", !.country = "a"]

\* a communication address with its required fields filled in
FilledCommunicationAddress ==
    [EmptyCommunicationAddress EXCEPT !.address1 = "a", !.address2 = "a",
                                      !.postcode = "a", !.country = "a"]

\* postcodes of 1, 8 and 9 characters
PostcodeSamples == {"a", "SW1A 1AA", "SW1A 1AAA"}

\* the valid record with its nationality fields, durations and previous
\* addresses replaced, the valid record with its phone fields replaced, and
\* the valid record with a previous address and a communication address,
\* the postcode of each of its three addresses replaced
IndividualRecords ==
    UNION { NationalityVariants(
              [ValidIndividualRecord EXCEPT
                  !.yearsAtAddress = Num(y), !.monthsAtAddress = Num(mo),
                  !.previousAddresses = list]) :
            y \in 0..MaxYears, mo \in {0, MaxMonths},
            list \in {<<>>, <<EmptyPreviousAddress>>, <<FilledPreviousAddress>>} }
    \cup { [ValidIndividualRecord EXCEPT !.telephone = t, !.mobile = mb] :
            t \in DigitFieldSamples(14) \cup {DigitRun(10, 0)},
            mb \in DigitFieldSamples(10) \cup {DigitRun(14, 0)} }
    \cup { [ValidIndividualRecord EXCEPT
              !.postcode = pc,
              !.previousAddresses = <<[FilledPreviousAddress EXCEPT !.postcode = pp]>>,
              !.isCommunicationAddress = FALSE,
              !.communicationAddress =
                  [FilledCommunicationAddress EXCEPT !.postcode = pm]] :
            pc \in PostcodeSamples, pp \in PostcodeSamples, pm \in PostcodeSamples }

InitIndividualSchema ==
    /\ tab = "individual"
    /\ FormsAsMounted
    /\ helperInput \in IndividualRecords
    /\ helperOutput = NotCalled

\* the resolver run on a record: individualFormSchema's issues
ValidateIndividual ==
    /\ ~helperOutput.called
    /\ helperOutput' = [called |-> TRUE, value |-> individualFormSchema(helperInput)]
    /\ UNCHANGED <<helperInput, formVars>>

NextIndividualSchema == ValidateIndividual

SpecIndividualSchema == InitIndividualSchema /\ [][NextIndividualSchema]_vars

NationalityFields == {"hasDualNationality", "secondNationality"}

\* C12: a record valid in every other field passes validation with
\* hasDualNationality false and secondNationality non-empty, and with
\* hasDualNationality true and secondNationality empty or absent.
C12_NationalityFieldsIndependent ==
    ( /\ helperOutput.called
      /\ Without(helperInput, NationalityFields)
           = Without(ValidIndividualRecord, NationalityFields)
      /\ \/ /\ ~helperInput.hasDualNationality
            /\ "secondNationality" \in DOMAIN helperInput
            /\ helperInput.secondNationality # ""
         \/ /\ helperInput.hasDualNationality
            /\ "secondNationality" \in DOMAIN helperInput
                 => helperInput.secondNationality = "" )
    => helperOutput.value = {}

\* C12 witness: not dual, yet a second nationality given: accepted
C12_Witness ==
    /\ helperOutput.called
    /\ helperInput = [ValidIndividualRecord EXCEPT !.secondNationality = "british"]
    /\ helperOutput.value = {}

\* C12 witness: dual, the second nationality absent: accepted
C12_WitnessAbsent ==
    /\ helperOutput.called
    /\ helperInput.hasDualNationality
    /\ "secondNationality" \notin DOMAIN helperInput
    /\ helperOutput.value = {}

DurationFields == {"yearsAtAddress", "monthsAtAddress", "previousAddresses"}

\* C13: a record valid in every other field whose previousAddresses list is
\* empty passes validation for every yearsAtAddress >= 0 and monthsAtAddress
\* in 0..11, totals below 36 months included.
C13_EmptyPreviousAddressesAccepted ==
    ( /\ helperOutput.called
      /\ DOMAIN helperInput = DOMAIN ValidIndividualRecord
      /\ Without(helperInput, DurationFields)
           = Without(ValidIndividualRecord, DurationFields)
      /\ helperInput.previousAddresses = <<>>
      /\ helperInput.yearsAtAddress.n >= 0
      /\ helperInput.monthsAtAddress.n \in 0..11 )
    => helperOutput.value = {}

\* C13 witness: 11 months at the address, no previous address: accepted
C13_Witness ==
    /\ helperOutput.called
    /\ helperInput = [ValidIndividualRecord EXCEPT
                         !.yearsAtAddress = Num(0), !.monthsAtAddress = Num(11)]
    /\ TotalMonths(helperInput).n < PreviousAddressThreshold
    /\ helperOutput.value = {}

AsciiDigits == {"0", "1", "2", "3", "4", "5", "6", "7", "8", "9"}

\* a text of exactly n characters, each a decimal digit
ExactlyDigits(text, n) ==
    /\ Len(text) = n
    /\ \A k \in 1..Len(text) : text[k] \in AsciiDigits

\* C14: telephone is accepted if and only if it is exactly 14 decimal digits
\* and nothing else, mobile if and only if it is exactly 10.
C14_PhoneRulesExact ==
    helperOutput.called
    => /\ "telephone" \notin ErrorPaths(helperOutput.value)
            <=> ExactlyDigits(helperInput.telephone, 14)
       /\ "mobile" \notin ErrorPaths(helperOutput.value)
            <=> ExactlyDigits(helperInput.mobile, 10)

\* C14 witness: 15 digits in telephone are rejected while the 10-digit
\* mobile is accepted
C14_Witness ==
    /\ helperOutput.called
    /\ helperInput.telephone = DigitRun(15, 0)
    /\ helperInput.mobile = DigitRun(10, 0)
    /\ "telephone" \in ErrorPaths(helperOutput.value)
    /\ "mobile" \notin ErrorPaths(helperOutput.value)

(***************************************************************************)
(* validateDate applied to bounded inputs                                  *)
(***************************************************************************)
DayTexts ==
    {<<"0", "0">>, <<"0", "1">>, <<"0", "9">>, <<"1", "0">>, <<"1", "9">>,
     <<"2", "9">>, <<"3", "0">>, <<"3", "1">>, <<"3", "2">>, <<"4", "0">>,
     <<"1">>, <<"0", "0", "1">>, <<"a", "1">>}

MonthTexts ==
    {<<"0", "0">>, <<"0", "1">>, <<"0", "2">>, <<"0", "9">>, <<"1", "0">>,
     <<"1", "2">>, <<"1", "3">>, <<"2", "0">>, <<"2">>, <<"1", "b">>}

YearTexts ==
    {<<"2", "0", "2", "4">>, <<"0", "0", "0", "0">>, <<"2", "0", "2">>,
     <<"2", "0", "2", "4", "5">>, <<"2", "0", "2", "x">>}

DateSeparators == {<<"-", "-">>, <<"/", "/">>, <<"-", "/">>, <<".", "-">>}

\* what may precede or follow the date in the input
DatePaddings == {<<>>, <<" ">>, <<"1">>, <<"\n">>}

DateInputs ==
    {pre \o d \o <<sep[1]>> \o m \o <<sep[2]>> \o y \o post :
        pre \in DatePaddings \ {<<"\n">>}, d \in DayTexts, sep \in DateSeparators,
        m \in MonthTexts, y \in YearTexts, post \in DatePaddings}

InitValidateDate ==
    /\ tab = "corporate"
    /\ FormsAsMounted
    /\ helperInput \in DateInputs
    /\ helperOutput = NotCalled

CallValidateDate ==
    /\ ~helperOutput.called
    /\ helperOutput' = [called |-> TRUE, value |-> validateDate(helperInput)]
    /\ UNCHANGED <<helperInput, formVars>>

NextValidateDate == CallValidateDate

SpecValidateDate == InitValidateDate /\ [][NextValidateDate]_vars

\* the number a text of decimal digits denotes
DecimalValue(text) == DigitsToNat(text)

\* the whole text is DD-MM-YYYY: ten characters, dashes third and sixth,
\* digits elsewhere, the day in 1..31 and the month in 1..12
IsDayMonthYear(text) ==
    /\ Len(text) = 10
    /\ text[3] = "-" /\ text[6] = "-"
    /\ \A k \in {1, 2, 4, 5, 7, 8, 9, 10} : text[k] \in AsciiDigits
    /\ DecimalValue(SubSeq(text, 1, 2)) \in 1..31
    /\ DecimalValue(SubSeq(text, 4, 5)) \in 1..12

\* C17: validateDate returns true if and only if the whole input is
\* DD-MM-YYYY with the day in 01..31, the month in 01..12, four year digits
\* and dashes; the day need not exist in the month, and extra characters
\* before or after make it false.
C17_ValidateDateExact ==
    helperOutput.called => (helperOutput.value <=> IsDayMonthYear(helperInput))

\* C17 witness: 31-02-2024 is accepted
C17_Witness ==
    /\ helperOutput.called
    /\ helperInput = <<"3", "1", "-", "0", "2", "-", "2", "0", "2", "4">>
    /\ helperOutput.value = TRUE

\* C17 witness: a valid date followed by one more character is rejected
C17_WitnessTrailing ==
    /\ helperOutput.called
    /\ helperInput = <<"3", "1", "-", "0", "2", "-", "2", "0", "2", "4", " ">>
    /\ helperOutput.value = FALSE

(***************************************************************************)
(* One mounted IndividualForm with all of its events                       *)
(***************************************************************************)
NextSession ==
    \/ \E text \in {<<>>, NatToText(0), NatToText(MaxYears)} :
           YearsAtAddressOnChange(text)
    \/ \E text \in NumberInputTexts(1) : MonthsAtAddressOnChange(text)
    \/ \E checked \in BOOLEAN : IsCommunicationAddressOnCheckedChange(checked)
    \/ \E checked \in BOOLEAN : HasDualNationalityOnCheckedChange(checked)
    \/ \E v \in NationalityCodes : SecondNationalityOnValueChange(v)
    \/ AddPreviousAddressClick
    \/ \E i \in 1..MaxPreviousAddresses, f \in EditedAddressFields,
          v \in TextSamples \ {""} : PreviousAddressFieldOnChange(i, f, v)
    \/ \E f \in EditedAddressFields, v \in TextSamples \ {""} :
           CommunicationAddressFieldOnChange(f, v)
    \/ \E v \in TextSamples : IndividualFieldOnChange("pstrId", v)
    \/ \E text \in NumberInputTexts(1) : EmployeeIdOnChange(text)
    \/ \E value \in NationalityCodes : TaxContributingCountryOnValueChange(value)
    \/ \E country \in NationalityCodes : TaxContributingCountryRemoveClick(country)
    \/ SubmitIndividual

SpecSession == Init /\ [][NextSession]_vars

\* a toggle of the isCommunicationAddress checkbox
CommunicationToggle == \E checked \in BOOLEAN : IsCommunicationAddressOnCheckedChange(checked)

\* a toggle of the hasDualNationality checkbox
DualNationalityToggle == \E checked \in BOOLEAN : HasDualNationalityOnCheckedChange(checked)

\* a direct edit of the previous addresses: the add button or an input of
\* an entry
PreviousAddressesEdit ==
    \/ AddPreviousAddressClick
    \/ \E i \in 1..MaxPreviousAddresses, f \in EditedAddressFields, v \in TextSamples :
           PreviousAddressFieldOnChange(i, f, v)

\* a direct edit of the communication address
CommunicationAddressEdit ==
    \E f \in EditedAddressFields, v \in TextSamples : CommunicationAddressFieldOnChange(f, v)

\* a choice in the second-nationality select
SecondNationalityEdit == \E v \in NationalityCodes : SecondNationalityOnValueChange(v)

\* C15 (as claimed): every event other than a flag's upstream event leaves
\* the flag and the data it governs unchanged.
C15_OtherEventsChangeNothing ==
    [][ /\ showPreviousAddresses' # showPreviousAddresses
           \/ individual'.previousAddresses # individual.previousAddresses
             => DurationOnChange
        /\ showCommunicationAddress' # showCommunicationAddress
           \/ individual'.communicationAddress # individual.communicationAddress
             => CommunicationToggle
        /\ showSecondNationality' # showSecondNationality
           \/ individual'.secondNationality # individual.secondNationality
             => DualNationalityToggle ]_vars

\* C15 (amended): a flag changes only on its upstream event, and the data it
\* governs changes only on that event or on a direct edit of that data.
C15_FlagsFollowOwnField ==
    [][ /\ showPreviousAddresses' # showPreviousAddresses => DurationOnChange
        /\ individual'.previousAddresses # individual.previousAddresses
             => DurationOnChange \/ PreviousAddressesEdit
        /\ showCommunicationAddress' # showCommunicationAddress => CommunicationToggle
        /\ individual'.communicationAddress # individual.communicationAddress
             => CommunicationToggle \/ CommunicationAddressEdit
        /\ showSecondNationality' # showSecondNationality => DualNationalityToggle
        /\ individual'.secondNationality # individual.secondNationality
             => DualNationalityToggle \/ SecondNationalityEdit ]_vars

\* C15 witness: a submit event has been handled with all three sections
\* shown and their data filled in
C15_Witness ==
    /\ submitResult.form = "individual"
    /\ showPreviousAddresses /\ showCommunicationAddress /\ showSecondNationality
    /\ Len(individual.previousAddresses) = 2
    /\ individual.communicationAddress # Undefined
    /\ individual.communicationAddress.address1 = "a"
    /\ individual.secondNationality = "british"

(***************************************************************************)
(* formatDate applied to bounded inputs                                    *)
(***************************************************************************)
Text2(n) == AddLeadingZeros(n, 2)

IsoYearTexts ==
    {<<"0", "0", "0", "1">>, <<"0", "0", "9", "9">>, <<"2", "0", "2", "3">>,
     <<"2", "0", "2", "4">>, <<"9", "9", "9", "9">>}

ExpandedYearTexts ==
    {<<"+", "0", "0", "2", "0", "2", "4">>, <<"+", "0", "1", "0", "0", "0", "0">>,
     <<"+", "2", "7", "5", "7", "6", "0">>, <<"-", "0", "0", "0", "0", "0", "1">>,
     <<"-", "0", "0", "0", "0", "0", "0">>}

FormatDateInputs ==
    {y \o <<"-">> \o Text2(m) \o <<"-">> \o Text2(d) :
        y \in IsoYearTexts, m \in {0, 1, 2, 3, 12, 13},
        d \in {0, 1, 15, 28, 29, 30, 31, 32}}
    \cup {y \o <<"-">> \o Text2(m) \o <<"-">> \o Text2(d) :
             y \in ExpandedYearTexts, m \in {1, 6, 12}, d \in {1, 15, 31}}
    \cup {Text2(a) \o <<"-">> \o Text2(b) \o <<"-">> \o <<"2", "0", "2", "4">> :
             a \in {1, 12, 13, 31}, b \in {1, 12, 31}}
    \cup {<<>>, <<"a", "b", "c">>, <<"-", "-">>, <<"n", "/", "a">>}

InitFormatDate ==
    /\ tab = "corporate"
    /\ FormsAsMounted
    /\ helperInput \in FormatDateInputs
    /\ helperOutput = NotCalled

\* formatDate(helperInput), for each date new Date can produce
CallFormatDate ==
    /\ ~helperOutput.called
    /\ \E parsed \in NewDate(helperInput) :
           helperOutput' = [called |-> TRUE,
                            value |-> formatDate(helperInput, parsed),
                            parsed |-> parsed]
    /\ UNCHANGED <<helperInput, formVars>>

NextFormatDate == CallFormatDate

SpecFormatDate == InitFormatDate /\ [][NextFormatDate]_vars

\* two digits, a dash, two digits, a dash, four digits
IsDayMonthYearPattern(text) ==
    /\ Len(text) = 10
    /\ text[3] = "-" /\ text[6] = "-"
    /\ \A k \in {1, 2, 4, 5, 7, 8, 9, 10} : text[k] \in AsciiDigits

\* C19 (as claimed): formatDate raises no error; for an input that does not
\* parse as a date it returns the input unchanged, and for one that parses
\* it returns two-digit day, dash, two-digit month, dash, four-digit year.
C19_FormatDatePattern ==
    helperOutput.called
    => /\ ~helperOutput.value.threw
       /\ ~helperOutput.parsed.valid => helperOutput.value.value = helperInput
       /\ helperOutput.parsed.valid => IsDayMonthYearPattern(helperOutput.value.value)

\* C19 (amended): formatDate raises no error; an input that does not parse
\* comes back unchanged; one that parses gives two-digit day, dash,
\* two-digit month, dash, and the year in four digits or more: exactly
\* four for the years 1 to 9999.
C19_FormatDateYearAtLeastFourDigits ==
    helperOutput.called
    => LET out == helperOutput.value.value
       IN  /\ ~helperOutput.value.threw
           /\ ~helperOutput.parsed.valid => out = helperInput
           /\ helperOutput.parsed.valid
                => /\ Len(out) >= 10
                   /\ out[3] = "-" /\ out[6] = "-"
                   /\ \A k \in (1..Len(out)) \ {3, 6} : out[k] \in AsciiDigits
                   /\ helperOutput.parsed.year \in 1..9999 => Len(out) = 10

\* C19 witness: 2024-02-15 has been parsed and formatted
C19_Witness ==
    /\ helperOutput.called
    /\ helperInput = <<"2", "0", "2", "4", "-", "0", "2", "-", "1", "5">>
    /\ helperOutput.parsed.valid
    /\ helperOutput.value = Returned(<<"1", "5", "-", "0", "2", "-", "2", "0", "2", "4">>)

\* C19 witness: a text that is no date has come back unchanged
C19_WitnessUnparseable ==
    /\ helperOutput.called
    /\ helperInput = <<"a", "b", "c">>
    /\ helperOutput.value = Returned(<<"a", "b", "c">>)

(***************************************************************************)
(* Claims about what the forms let the user submit                         *)
(***************************************************************************)
\* C21 (as claimed): every record handed to onSubmit of the individual form
\* with yearsAtAddress * 12 + monthsAtAddress < 36 holds at least one
\* previous-address entry, whatever events preceded the submit.
C21_ShortStayHasPreviousAddress ==
    ( /\ submitResult.form = "individual"
      /\ submitResult.called
      /\ BelowThreshold(individual) )
    => Len(individual.previousAddresses) >= 1

(***************************************************************************)
(* Further claims about the previous-addresses section                     *)
(***************************************************************************)
\* C22: in every reachable state, while the previous-addresses section is
\* hidden the list is empty, and while it is visible the list holds between
\* 1 and 3 entries.
C22_ListMatchesVisibility ==
    /\ ~showPreviousAddresses => individual.previousAddresses = <<>>
    /\ showPreviousAddresses
         => /\ Len(individual.previousAddresses) >= 1
            /\ Len(individual.previousAddresses) <= 3

\* C22 witness: the section hidden again, at 36 months or more, after the
\* months were changed
C22_Witness ==
    /\ ~showPreviousAddresses
    /\ AtOrAboveThreshold(individual)
    /\ individual.monthsAtAddress = Num(1)
    /\ individual.previousAddresses = <<>>

\* C23: the typed duration is in the draft when the rule runs: the single
\* change of years or months that takes a hidden section from 36 months or
\* more to a total below 36 shows the section, with its first entry, in
\* that same event.
C23_RuleUsesTypedValue ==
    [][ ( /\ ~showPreviousAddresses
          /\ AtOrAboveThreshold(individual)
          /\ BelowThreshold(individual')
          /\ DurationOnChange )
        => ( /\ showPreviousAddresses'
             /\ individual'.previousAddresses = <<EmptyPreviousAddress>> )
      ]_vars

\* C23 witness: shown at 24 months with the initial entry
C23_Witness ==
    /\ showPreviousAddresses
    /\ individual.yearsAtAddress = Num(2)
    /\ individual.monthsAtAddress = Num(0)
    /\ individual.previousAddresses = <<EmptyPreviousAddress>>

\* an entry whose six texts are empty and whose two durations are 0
IsBlankEntry(entry) ==
    /\ \A f \in {"address1", "address2", "address3", "address4", "postcode", "country"} :
           entry[f] = ""
    /\ entry.yearsAtAddress = Num(0)
    /\ entry.monthsAtAddress = Num(0)

\* C24: with fewer than 3 entries, add previous address appends exactly one
\* blank entry at the end and leaves the existing entries as they were, in
\* their order.
C24_AddAppendsOneBlankEntry ==
    [][ ( /\ Len(individual.previousAddresses) < 3
          /\ AddPreviousAddressClick )
        => LET old == individual.previousAddresses
               new == individual'.previousAddresses
           IN  /\ Len(new) = Len(old) + 1
               /\ \A i \in 1..Len(old) : new[i] = old[i]
               /\ IsBlankEntry(new[Len(new)])
      ]_vars

\* C24 witness: a blank entry appended behind an entry that was filled in
C24_Witness ==
    /\ showPreviousAddresses
    /\ Len(individual.previousAddresses) = 2
    /\ individual.previousAddresses[1].address1 = "a"
    /\ IsBlankEntry(individual.previousAddresses[2])

(***************************************************************************)
(* Postcodes of the three kinds of address                                 *)
(***************************************************************************)
\* C25 (as claimed): the individual validator reports an error at the
\* postcode of every address whose postcode is longer than 8 characters: the
\* current address, each previous-address entry and the communication
\* address.
C25_LongPostcodeRejectedEverywhere ==
    helperOutput.called
    => LET paths == ErrorPaths(helperOutput.value)
           list == helperInput.previousAddresses
           comm == helperInput.communicationAddress
       IN  /\ Len(helperInput.postcode) > 8 => "postcode" \in paths
           /\ \A i \in 1..Len(list) :
                  Len(list[i].postcode) > 8
                  => ElementPath("previousAddresses", i, "postcode") \in paths
           /\ (comm # Undefined /\ Len(comm.postcode) > 8)
                  => "communicationAddress.postcode" \in paths

(***************************************************************************)
(* The communication address after an uncheck                              *)
(***************************************************************************)
\* C26: every event that unchecks isCommunicationAddress leaves
\* communicationAddress a record of six empty strings (address1..address4,
\* postcode, country), whatever it held before; nothing typed earlier comes
\* back.
C26_UncheckAllocatesEmptyAddress ==
    [][ IsCommunicationAddressOnCheckedChange(FALSE)
        => individual'.communicationAddress =
             [address1 |-> "", address2 |-> "", address3 |-> "",
              address4 |-> "", postcode |-> "", country |-> ""]
      ]_vars

\* C26 witness: unchecked, the section shown and every field of the
\* communication address empty
C26_Witness ==
    /\ ~individual.isCommunicationAddress
    /\ showCommunicationAddress
    /\ individual.communicationAddress # Undefined
    /\ \A f \in DOMAIN individual.communicationAddress :
           individual.communicationAddress[f] = ""

(***************************************************************************)
(* What a submit event leaves alone                                        *)
(***************************************************************************)
\* C27: a step that records a submit result, accepted or refused, changes
\* neither form's values nor any of the three visibility flags, and in the
\* state after it the form still takes events: another submit, an edit and
\* a toggle are all enabled.
C27_SubmitChangesNothing ==
    /\ [][ submitResult'.form # NoSubmit.form
           => UNCHANGED <<individual, corporate, showPreviousAddresses,
                          showCommunicationAddress, showSecondNationality>>
         ]_vars
    /\ [](submitResult.form = "individual"
            => /\ ENABLED SubmitIndividual
               /\ ENABLED IsCommunicationAddressOnCheckedChange(
                              ~individual.isCommunicationAddress)
               /\ ENABLED YearsAtAddressOnChange(NatToText(0)))
    /\ [](submitResult.form = "corporate"
            => /\ ENABLED SubmitCorporate
               /\ ENABLED CorporateInputOnChange("pstrId", "a"))

\* C27 witness: a refused submit of the individual form with the
\* communication address shown and typed into, all still in place
C27_Witness ==
    /\ submitResult.form = "individual"
    /\ ~submitResult.called
    /\ showCommunicationAddress
    /\ individual.communicationAddress # Undefined
    /\ individual.communicationAddress.address1 = "a"

\* an accepted submit of the individual form with the values it was given
C27_WitnessAccepted ==
    /\ submitResult.form = "individual"
    /\ submitResult.called
    /\ individual.surname # ""
    /\ individual.taxContributingCountry # <<>>

(***************************************************************************)
(* A duration input that holds no number                                   *)
(***************************************************************************)
\* C28: a change of years or months after which one of the two is not a
\* number leaves the previous-addresses flag and the previousAddresses list
\* as they were, and while one of the two is not a number every submit of
\* the individual form is refused with an error at that field.
C28_NotANumberDuration ==
    /\ [][ ( /\ individual'.yearsAtAddress.nan \/ individual'.monthsAtAddress.nan
             /\ DurationOnChange )
           => /\ showPreviousAddresses' = showPreviousAddresses
              /\ individual'.previousAddresses = individual.previousAddresses
         ]_vars
    /\ [](submitResult.form = "individual"
            => \A f \in {"yearsAtAddress", "monthsAtAddress"} :
                   individual[f].nan
                   => /\ ~submitResult.called
                      /\ f \in ErrorPaths(submitResult.errors))

\* C28 witness: the years cleared while the section is shown with its
\* entry, and the submit that followed refused
C28_Witness ==
    /\ individual.yearsAtAddress.nan
    /\ showPreviousAddresses
    /\ Len(individual.previousAddresses) = 1
    /\ submitResult.form = "individual"
    /\ ~submitResult.called

(***************************************************************************)
(* IndividualForm: the Tax Contributing Country list                       *)
(***************************************************************************)
\* the values of the countries offered by the Select
countries == {"GB", "US", "CA", "FR", "DE"}

NextTax ==
    \/ \E value \in countries : TaxContributingCountryOnValueChange(value)
    \/ \E country \in countries : TaxContributingCountryRemoveClick(country)
    \/ \E v \in TextSamples : IndividualFieldOnChange("foreignTinId", v)
    \/ SubmitIndividual

SpecTax == Init /\ [][NextTax]_vars

\* C29: taxContributingCountry never holds a country code twice; choosing a
\* code the list holds leaves the list as it was, and Remove leaves the
\* list without that code and with every other code in place.
C29_NoCountryTwice ==
    /\ [](\A i, j \in 1..Len(individual.taxContributingCountry) :
             i # j => individual.taxContributingCountry[i]
                         # individual.taxContributingCountry[j])
    /\ [][ \A c \in countries :
             ( /\ Includes(individual.taxContributingCountry, c)
               /\ TaxContributingCountryOnValueChange(c) )
             => individual'.taxContributingCountry = individual.taxContributingCountry
         ]_vars
    /\ [][ \A c \in countries :
             TaxContributingCountryRemoveClick(c)
             => /\ ~Includes(individual'.taxContributingCountry, c)
                /\ \A d \in countries \ {c} :
                       Includes(individual'.taxContributingCountry, d)
                       <=> Includes(individual.taxContributingCountry, d)
         ]_vars

\* C29 witness: two countries listed, in the order they were chosen
C29_Witness ==
    /\ Len(individual.taxContributingCountry) = 2
    /\ individual.taxContributingCountry[1] = "US"
    /\ individual.taxContributingCountry[2] = "GB"

(***************************************************************************)
(* The second nationality while the flag is false                          *)
(***************************************************************************)
\* C30: in every state the events of the individual form reach,
\* hasDualNationality = false implies secondNationality = "", so no submit
\* ever sees the flag false together with a second nationality.
C30_NoSecondNationalityWithoutFlag ==
    ~individual.hasDualNationality => individual.secondNationality = ""

\* C30 witness: a submit with the flag false, after events that changed the
\* form
C30_Witness ==
    /\ submitResult.form = "individual"
    /\ ~individual.hasDualNationality
    /\ ~showSecondNationality
    /\ individual.secondNationality = ""
    /\ individual.pstrId = "a"

====
